---- MODULE Spec2Model ----
(***************************************************************************)
(* CapGate: the Evil Twin workflow (plugins/evil_twin/main.py) and the     *)
(* managers it composes: TrafficRedirector, InterfaceController,           *)
(* APManager, DhcpDnsManager, WebServerManager.                            *)
(*                                                                         *)
(* The host (kernel ip_forward, iptables tables, NetworkManager status,    *)
(* interface modes, helper processes) is part of the state.  External      *)
(* commands are run through shelltools.run_command; whether a command      *)
(* succeeds is chosen by the environment, what a successful command does   *)
(* to the host is fixed by the command.                                    *)
(***************************************************************************)
EXTENDS Naturals, Sequences, FiniteSets, TLC

VARIABLES host, pre, tr, eta, ctx, store, thread, acq, steps, pc, ret, exc, cleanupCalled, cleanupExc, hist, faults, discovery_graph, call, state_file, networks, app_context, lock, tpc, wifi_crack, files

vars == <<host, pre, tr, eta, ctx, store, thread, acq, steps, pc, ret, exc, cleanupCalled, cleanupExc, hist, faults, discovery_graph, call, state_file, networks, app_context, lock, tpc, wifi_crack, files>>

None == "None"

\* ---------------------------------------------------------------- names

Ifaces == {"wlan0", "wlan1"}

\* the VIF name airmon-ng reports for a physical interface (wlanNmon)
MonName(i) == IF i = "wlan0" THEN "wlan0mon" ELSE "wlan1mon"

MonNames == {MonName(i) : i \in Ifaces}

Names == Ifaces \cup MonNames

PhysOf(n) == IF n \in Ifaces THEN n ELSE CHOOSE i \in Ifaces : MonName(i) = n

Tables == {"filter", "nat", "mangle", "raw"}

\* the most networks a scan returns
MaxNets == 2

\* the most operations of one run in which the environment makes commands
\* or helper processes fail
MaxFaults == 1

\* the seven rules of rules_to_apply, in order
NumRules == 7

\* posts to /login considered in one run
MaxPosts == 1

\* rules 1-3 carry "-t nat"; rules 4-7 name no table and go to filter
RuleTable(r) == IF r \in 1..3 THEN "nat" ELSE "filter"

rules_to_apply == [r \in 1..NumRules |-> r]

\* ------------------------------------------------------- shell executor
\* A world w is the record of everything an operation can read or change:
\*   host, tr, eta, ctx, store, thread, acq, steps, hist, plus
\*   exc (the exception now propagating) and rv (the last return value).
\* An operation applied to a world in which an exception propagates does
\* nothing: the statements after a raise are skipped.
\*
\* host.nm[i] is what `nmcli -g GENERAL.NM-MANAGED dev show i` prints,
\* host.kmode[n] the type `iw dev n info` prints ("absent": no such device),
\* host.hw[i] the modes the radio supports, host.addr[i] whether i carries
\* the portal address, host.rules[t] the program's rules present in table t,
\* host.other[t] / host.chains[t] whether somebody else's rules / chains
\* are in t.

\* the ways an external command can fail
FailKinds == {"nonzero", "missing", "timeout"}

\* external commands, by executable and what they are asked to do
NmcliSet(n, v) == [tool |-> "nmcli_set", verb |-> "managed", dev |-> n, arg |-> v, num |-> 0]

NmcliConnect(n) == [tool |-> "nmcli_set", verb |-> "connect", dev |-> n, arg |-> "", num |-> 0]

IpLink(n) == [tool |-> "iplink", verb |-> "link", dev |-> n, arg |-> "", num |-> 0]

IpAddrFlush(n) == [tool |-> "iplink", verb |-> "flush", dev |-> n, arg |-> "", num |-> 0]

IpAddrAdd(n) == [tool |-> "iplink", verb |-> "add", dev |-> n, arg |-> "", num |-> 0]

IwSetType(n, t) == [tool |-> "iplink", verb |-> "type", dev |-> n, arg |-> t, num |-> 0]

IwInfo(n) == [tool |-> "iplink", verb |-> "info", dev |-> n, arg |-> "", num |-> 0]

AirmonStart(n) == [tool |-> "airmon", verb |-> "start", dev |-> n, arg |-> "", num |-> 0]

AirmonStop(n) == [tool |-> "airmon", verb |-> "stop", dev |-> n, arg |-> "", num |-> 0]

Sysctl(v) == [tool |-> "sysctl", verb |-> "ip_forward", dev |-> None, arg |-> "", num |-> v]

IptablesA(r) == [tool |-> "iptables", verb |-> "A", dev |-> None, arg |-> "", num |-> r]

IptablesD(r) == [tool |-> "iptables", verb |-> "D", dev |-> None, arg |-> "", num |-> r]

IptablesFX == [tool |-> "iptables", verb |-> "FX", dev |-> None, arg |-> "", num |-> 0]

\* what a command that exits zero has done to the host
Effect(h, c) ==
    CASE c.verb = "managed" /\ c.dev \in Ifaces -> [h EXCEPT !.nm[c.dev] = c.arg]
      [] c.verb = "flush" -> [h EXCEPT !.addr[c.dev] = FALSE]
      [] c.verb = "add" -> [h EXCEPT !.addr[c.dev] = TRUE]
      [] c.verb = "type" -> [h EXCEPT !.kmode[c.dev] = c.arg]
      [] c.verb = "start" -> [h EXCEPT !.kmode[MonName(c.dev)] = "monitor", !.kmode[c.dev] = "monitor"]
      [] c.verb = "stop" /\ c.dev \in MonNames -> [h EXCEPT !.kmode[c.dev] = "absent", !.kmode[PhysOf(c.dev)] = "managed"]
      [] c.verb = "ip_forward" -> [h EXCEPT !.ip_forward = c.num]
      [] c.verb = "A" -> [h EXCEPT !.rules[RuleTable(c.num)] = @ \cup {c.num}]
      [] c.verb = "D" -> [h EXCEPT !.rules[RuleTable(c.num)] = @ \ {c.num}]
      [] c.verb = "FX" -> [h EXCEPT !.rules = [t \in Tables |-> {}], !.other = [t \in Tables |-> FALSE], !.chains = [t \in Tables |-> FALSE]]
      [] OTHER -> h

\* a command exits non-zero by itself when its device does not exist, when
\* the radio lacks the mode asked for, or when the rule to delete is not there
Refused(h, c) ==
    \/ c.dev \in Names /\ h.kmode[c.dev] = "absent"
    \/ c.verb = "type" /\ c.dev \in Ifaces /\ c.arg \notin h.hw[c.dev] \cup {"managed"}
    \/ c.verb = "start" /\ (c.dev \notin Ifaces \/ "monitor" \notin h.hw[PhysOf(c.dev)])
    \/ c.verb = "D" /\ c.num \notin h.rules[RuleTable(c.num)]

\* subprocess.run raises TimeoutExpired only when a timeout was passed;
\* without one a slow command simply runs to its end.
Outcome(fails, kind, hasTimeout) == IF ~fails \/ (kind = "timeout" /\ ~hasTimeout) THEN "ok" ELSE kind

\* e is the environment of one operation: the command classes that fail,
\* how they fail, and the rule whose append fails (0: none)
RunOutcome(h, c, hasTimeout, e) ==
    IF Outcome(c.tool \in e.fail, e.kind, hasTimeout) # "ok" THEN e.kind
    ELSE IF Refused(h, c) \/ (c.verb = "A" /\ c.num = e.k) THEN "nonzero"
    ELSE "ok"

ExcOf(outcome) == CASE outcome = "nonzero" -> "CalledProcessError" [] outcome = "missing" -> "FileNotFoundError" [] outcome = "timeout" -> "TimeoutExpired" [] OTHER -> "none"

\* the exception classes an `except Exception` clause of the code catches
Catches_mut(x) == x = "CalledProcessError"

Catches(x) == x \in {"CalledProcessError", "FileNotFoundError", "TimeoutExpired", "ValueError", "AttributeError", "Exception"}

\* try: <body raising x> except Exception: <log> -- what is still propagating
TryExcept(x) == IF x = "none" \/ Catches(x) THEN "none" ELSE x

\* shelltools.run_command(cmd, check=..., timeout=...): with check=False
\* every failure is logged and "" returned, with check=True it is raised
run_command(w, c, check, hasTimeout, e) ==
    IF w.exc # "none" THEN w
    ELSE IF RunOutcome(w.host, c, hasTimeout, e) = "ok" THEN [w EXCEPT !.host = Effect(w.host, c)]
    ELSE IF check THEN [w EXCEPT !.exc = ExcOf(RunOutcome(w.host, c, hasTimeout, e))]
    ELSE w

Raise(w, x) == IF w.exc = "none" THEN [w EXCEPT !.exc = x] ELSE w

\* the end of a try block whose handler is `except Exception` and only logs
Except(w) == [w EXCEPT !.exc = TryExcept(w.exc), !.hist.swallowed = @ \/ (w.exc # "none" /\ TryExcept(w.exc) = "none")]

Ret(w, v) == IF w.exc # "none" THEN w ELSE [w EXCEPT !.rv = v]

LogStep(w, s) == IF w.exc # "none" THEN w ELSE [w EXCEPT !.steps = Append(@, s)]

LogAcq(w, a) == IF w.exc # "none" THEN w ELSE [w EXCEPT !.acq = Append(@, a)]

\* ----------------------------------------------------- TrafficRedirector
\* tr.applied is _applied_rules (the "-D" forms, by rule number) and
\* tr.fwd is _ip_forwarding_enabled.

\* _execute_iptables_command: True iff the command exited zero; both of its
\* handlers log and return False.
ExecRet(w) == IF w.exc = "none" THEN Ret(w, TRUE) ELSE Ret(Except(w), FALSE)

execute_iptables_command(w, c, e) == ExecRet(run_command(w, c, TRUE, FALSE, e))

\* enable_ip_forwarding: sysctl -w net.ipv4.ip_forward=1 (check=True), then
\* the flag, whatever the value was; any exception is logged, False returned
FwdEnd(w) == IF w.exc = "none" THEN Ret(LogAcq([w EXCEPT !.tr.fwd = TRUE], "fwd"), TRUE) ELSE Ret(Except(w), FALSE)

enable_ip_forwarding(w, e) == IF w.exc # "none" THEN w ELSE FwdEnd(run_command(w, Sysctl(1), TRUE, FALSE, e))

\* step 1 of clear_redirection_rules: replay the undo list in reverse; ok is
\* cleanup_success so far
RECURSIVE DeleteApplied(_, _, _, _)
DeleteNext(w, rest, ok, e) == DeleteApplied(w, rest, ok /\ w.rv, e)

DeleteApplied(w, undo, ok, e) ==
    IF undo = <<>> \/ w.exc # "none" THEN Ret(w, ok)
    ELSE DeleteNext(execute_iptables_command(w, IptablesD(undo[Len(undo)]), e), SubSeq(undo, 1, Len(undo) - 1), ok, e)

\* step 2: forget the list, then -F and -X on each of the four tables
FlushRet(w, ok) == LogStep(Ret(w, ok /\ w.rv), "ipt_clear")

ClearFlush(w, e) == FlushRet(execute_iptables_command([w EXCEPT !.tr.applied = <<>>], IptablesFX, e), w.rv)

\* step 3: write ip_forward=0 (check=False) when the flag is set; the flag
\* itself is left as it is
ClearSysctl(w, e) == IF w.exc = "none" /\ w.tr.fwd THEN LogStep(Except(run_command(w, Sysctl(0), FALSE, FALSE, e)), "sysctl0") ELSE w

\* the value returned is cleanup_success
ClearEnd(w) == IF w.exc = "none" THEN [w EXCEPT !.hist.clear_ok = w.rv] ELSE w

clear_redirection_rules(w, e) == IF w.exc # "none" THEN w ELSE ClearEnd(ClearSysctl(ClearFlush(DeleteApplied(w, w.tr.applied, TRUE, e), e), e))

\* the argument lists setup_redirection_rules puts into rules_to_apply, by
\* rule number; each already carries its "-A <chain>"
rule_args_list(r) ==
    CASE r = 1 -> <<"-t", "nat", "-A", "POSTROUTING", "-o", "internet_interface", "-j", "MASQUERADE">>
      [] r = 2 -> <<"-t", "nat", "-A", "PREROUTING", "-i", "ap_interface", "-p", "tcp", "--dport", "80", "-j", "DNAT">>
      [] r = 3 -> <<"-t", "nat", "-A", "PREROUTING", "-i", "ap_interface", "-p", "tcp", "--dport", "443", "-j", "DNAT">>
      [] r = 4 -> <<"-A", "FORWARD", "-i", "ap_interface", "-p", "udp", "--dport", "53", "-j", "DROP">>
      [] r = 5 -> <<"-A", "FORWARD", "-i", "ap_interface", "-o", "internet_interface", "-j", "ACCEPT">>
      [] r = 6 -> <<"-A", "FORWARD", "-i", "internet_interface", "-o", "ap_interface", "-j", "ACCEPT">>
      [] r = 7 -> <<"-A", "FORWARD", "-m", "state", "--state", "ESTABLISHED,RELATED", "-j", "ACCEPT">>

\* the argv the loop executes for rule r, and the argv it appends to
\* _applied_rules
InstallArgv(r) == <<"-A">> \o rule_args_list(r)

UndoArgv(r) == <<"-D">> \o rule_args_list(r)

\* `for rule_args_list in reversed(self._applied_rules)`: the undo entries in
\* the order clear_redirection_rules executes them
RECURSIVE DeleteOrder(_)
DeleteOrder(undo) == IF undo = <<>> THEN <<>> ELSE <<undo[Len(undo)]>> \o DeleteOrder(SubSeq(undo, 1, Len(undo) - 1))

\* the loop of setup_redirection_rules: append rule r and record its undo
\* form; stop at the first rule that fails
RECURSIVE ApplyRules(_, _, _)
ApplyNext(w, r, e) == IF w.exc # "none" \/ ~w.rv THEN w ELSE ApplyRules([w EXCEPT !.tr.applied = Append(@, rules_to_apply[r])], r + 1, e)

ApplyRules(w, r, e) == IF r > NumRules \/ w.exc # "none" THEN Ret(w, TRUE) ELSE ApplyNext(execute_iptables_command(w, IptablesA(rules_to_apply[r]), e), r, e)

\* the end of setup_redirection_rules: on a failure clear and return False
SetupEnd(w, e) ==
    IF w.exc # "none" THEN w
    ELSE IF w.rv THEN Ret(LogAcq([w EXCEPT !.hist.setup_ok = TRUE], "ipt"), TRUE)
    ELSE Ret(clear_redirection_rules([w EXCEPT !.hist.rollback_called = TRUE], e), FALSE)

\* setup_redirection_rules: clear first, then apply the rules
setup_redirection_rules(w, e) ==
    IF w.exc # "none" THEN w
    ELSE SetupEnd(ApplyRules(clear_redirection_rules([w EXCEPT !.hist.setup_called = TRUE, !.hist.rules_before = w.host.rules, !.hist.other_before = w.host.other, !.hist.chains_before = w.host.chains], e), 1, e), e)

\* --------------------------------------------------- InterfaceController
\* store.mode[i] is the mode recorded for i in the discovery graph.
\* While enable_monitor_mode runs, rv holds its two locals:
\* name (actual_monitor_iface_name) and flag (nm_was_set_unmanaged).

\* the NetworkManager block: probe, and `managed no` when the probe says yes
EmmNmSet(w) == IF w.exc = "none" THEN Ret(w, [name |-> None, flag |-> TRUE]) ELSE Ret(Except(w), [name |-> None, flag |-> FALSE])

EmmNm(w, i, e) ==
    IF "nmcli_show" \notin e.fail /\ w.host.nm[i] = "yes" THEN EmmNmSet(run_command(w, NmcliSet(i, "no"), TRUE, FALSE, e))
    ELSE Ret(w, [name |-> None, flag |-> FALSE])

\* the ip/iw attempt: down, set type monitor, up, then read the type back
EmmIwCheck(w, i) == IF w.exc = "none" /\ w.host.kmode[i] # "monitor" THEN Raise(w, "Exception") ELSE w

EmmIw(w, i, e) == EmmIwCheck(run_command(run_command(run_command(run_command(w, IpLink(i), TRUE, FALSE, e), IwSetType(i, "monitor"), TRUE, FALSE, e), IpLink(i), TRUE, FALSE, e), IwInfo(i), TRUE, FALSE, e), i)

\* except Exception: airmon-ng start, the VIF name parsed from its output
EmmAirmonEnd(w, i) == IF w.exc = "none" THEN [w EXCEPT !.rv.name = MonName(i)] ELSE Except(w)

EmmAirmon(w, i, e) ==
    IF w.exc = "none" THEN [w EXCEPT !.rv.name = i]
    ELSE IF ~Catches(w.exc) THEN w
    ELSE EmmAirmonEnd(run_command(Except(w), AirmonStart(i), TRUE, FALSE, e), i)

\* finally: on failure hand the interface back to NetworkManager
EmmFinallyEnd_mut(w) == IF w.exc = "none" THEN w ELSE Except(w)

EmmFinallyEnd(w) == IF w.exc = "none" THEN [w EXCEPT !.rv.flag = FALSE] ELSE Except(w)

EmmFinally(w, i, e) == IF w.exc = "none" /\ w.rv.name = None /\ w.rv.flag THEN EmmFinallyEnd(run_command(w, NmcliSet(i, "yes"), TRUE, FALSE, e)) ELSE w

\* on success the discovery graph gets mode "monitor" for interface_name
EmmStore(w, i) == IF w.exc = "none" /\ w.rv.name # None THEN [w EXCEPT !.store.mode[i] = "monitor"] ELSE w

\* enable_monitor_mode(interface_name): returns (name or None, nm flag)
enable_monitor_mode(w, i, e) == IF w.exc # "none" THEN w ELSE EmmStore(EmmFinally(EmmAirmon(EmmIw(EmmNm(w, i, e), i, e), i, e), i, e), i)

\* restore_interface_state, its three blocks
RisNm(w, orig, flag, e) == IF flag THEN Except(run_command(w, NmcliSet(orig, "yes"), TRUE, FALSE, e)) ELSE w

RisMode(w, orig, name, e) ==
    IF name # None /\ name # orig THEN Except(run_command(w, AirmonStop(name), FALSE, FALSE, e))
    ELSE IF name # None THEN Except(run_command(run_command(w, IwSetType(orig, "managed"), TRUE, FALSE, e), IpLink(orig), TRUE, FALSE, e))
    ELSE w

RisUp(w, orig, e) == Ret(Except(run_command(w, IpLink(orig), FALSE, FALSE, e)), TRUE)

\* restore_interface_state(original_physical_interface, nm_was_set_unmanaged,
\* monitor_interface_name_final).  The discovery graph is not written.
restore_interface_state(w, orig, flag, name, e) == IF w.exc # "none" THEN w ELSE RisUp(RisMode(RisNm(w, orig, flag, e), orig, name, e), orig, e)

\* ------------------------------------------- APManager, DhcpDnsManager
\* host.hostapd / host.dnsmasq: "none", "running" or "dead" (the child);
\* eta.hostapd_process / eta.dnsmasq_process: None or "proc" (the Popen
\* object the manager holds).  spawn is what Popen and the poll() after the
\* sleep find: "ok", "missing" (FileNotFoundError) or "dies".

Spawns == {"ok", "missing", "dies"}

\* start_ap(interface, ...)
start_ap(w, iface, spawn) ==
    LET started == [w EXCEPT !.eta.hostapd_process = "proc", !.host.hostapd = IF spawn = "ok" THEN "running" ELSE "dead"]
        updated == [started EXCEPT !.store.mode[iface] = "AP", !.store.caps[iface] = {"AP"}]
    IN IF w.exc # "none" THEN w
       ELSE IF iface \notin w.store.present THEN Ret(w, FALSE)
       ELSE IF w.store.mode[iface] = "monitor" THEN Ret(w, FALSE)
       ELSE IF spawn = "missing" THEN Ret(w, FALSE)
       ELSE IF spawn = "dies" THEN Ret(started, FALSE)
       ELSE Ret(LogAcq(updated, "ap"), TRUE)

\* stop_ap: terminate, wait(5), and kill and wait when the wait timed out
stop_ap(w, graceful) ==
    LET alive == w.eta.hostapd_process = "proc" /\ w.host.hostapd = "running"
        w1 == IF alive THEN [w EXCEPT !.host.hostapd = "dead"] ELSE w
    IN IF w.exc # "none" THEN w ELSE Ret(LogStep(w1, "stop_ap"), TRUE)

\* start_dhcp_dns(interface, ...)
start_dhcp_dns(w, spawn) ==
    LET started == [w EXCEPT !.eta.dnsmasq_process = "proc", !.host.dnsmasq = IF spawn = "ok" THEN "running" ELSE "dead"]
    IN IF w.exc # "none" THEN w
       ELSE IF spawn = "missing" THEN Ret(w, FALSE)
       ELSE IF spawn = "dies" THEN Ret(started, FALSE)
       ELSE Ret(LogAcq(started, "dhcp"), TRUE)

\* stop_dhcp_dns
stop_dhcp_dns(w, graceful) ==
    LET alive == w.eta.dnsmasq_process = "proc" /\ w.host.dnsmasq = "running"
        w1 == IF alive THEN [w EXCEPT !.host.dnsmasq = "dead"] ELSE w
    IN IF w.exc # "none" THEN w ELSE Ret(LogStep(w1, "stop_dhcp"), TRUE)

\* ------------------------------------------------------ WebServerManager
\* thread: "none", "alive" or "dead" (the daemon thread);
\* eta.httpd_thread: None or "thread" (the manager's _httpd_thread);
\* eta.cf_global: _credentials_file_path_global is set;
\* eta.cb_global: _captured_credentials_callback_global is set;
\* host.credfile: lines in the credentials file.

\* start_webserver up to and including Thread.start(); rv FALSE when
\* _prepare_web_root_files failed
start_webserver_begin(w, webroot_ok) ==
    IF w.exc # "none" THEN w
    ELSE IF ~webroot_ok THEN Ret([w EXCEPT !.eta.cb_global = TRUE], FALSE)
    ELSE Ret([w EXCEPT !.eta.cb_global = TRUE, !.thread = "alive", !.eta.httpd_thread = "thread"], TRUE)

\* start_webserver after time.sleep(2): the is_alive() test
start_webserver_check(w) ==
    IF w.exc # "none" THEN w
    ELSE IF w.thread # "alive" THEN Ret(w, FALSE)
    ELSE Ret(LogAcq(w, "web"), TRUE)

\* _run_flask_app_in_thread: self._flask_app_instance is read but never
\* assigned before the first stop_webserver (AttributeError, caught) and is
\* None after it (early return); either way the thread ends without serving.
run_flask_app_in_thread(th) == IF th = "alive" THEN "dead" ELSE th

\* stop_webserver: the shutdown POST and join(timeout=5) are best effort;
\* a thread still alive after the join is only logged.  The manager then
\* drops its reference.
stop_webserver(w) ==
    IF w.exc # "none" THEN w
    ELSE Ret(LogStep([w EXCEPT !.eta.httpd_thread = None, !.eta.cf_global = FALSE, !.eta.cb_global = FALSE], "stop_web"), TRUE)

\* _on_credentials_captured: keep the credentials, set the event
on_credentials_captured(w) == [w EXCEPT !.eta.captured_creds = TRUE, !.eta.event = TRUE]

\* login_handler for a POST carrying a username and a password: a line is
\* appended to the credentials file when its path is set, and the callback
\* is called when one is registered
LoginCallback(w) == IF w.eta.cb_global THEN on_credentials_captured(w) ELSE w

login_handler(w) == LoginCallback(IF w.eta.cf_global THEN [w EXCEPT !.host.credfile = @ + 1] ELSE w)

\* -------------------------------------------------------- EvilTwinAttack
\* eta is the EvilTwinAttack object with its managers:
\*   ap, deauth, verify   ap_/deauth_/verify_interface_name
\*   auto                 auto_select_mode
\*   nm_was_managed       ap_iface_nm_was_managed
\*   ssid                 ap_iface_original_ssid is set
\*   target               target_bssid and target_channel are set

Env(fail, kind, k) == [fail |-> fail, kind |-> kind, k |-> k]

\* first name in sorted order, as the loops over the sorted lists find it
FirstOf(S) == IF "wlan0" \in S THEN "wlan0" ELSE IF "wlan1" \in S THEN "wlan1" ELSE None

\* _get_iface_by_name_and_cap
get_iface_by_name_and_cap(st, name, cap) == IF name # None /\ name \in st.present /\ cap \in st.caps[name] THEN name ELSE None

\* _auto_select_iface over the interfaces having capability cap
auto_select_iface(st, cap, exclude) == FirstOf({i \in st.present : cap \in st.caps[i]} \ exclude)

\* 1. the AP interface: the CLI name if it can do AP, else auto-selection
SelectAp(w) == IF get_iface_by_name_and_cap(w.store, w.eta.ap, "AP") = None /\ w.eta.auto THEN auto_select_iface(w.store, "AP", {}) ELSE get_iface_by_name_and_cap(w.store, w.eta.ap, "AP")

\* 2. the deauth interface: the context holds no "deauth_iface", so it is
\* auto-selection, else the AP interface if it can do monitor
SelectDeauth(w, ap) == IF (w.eta.auto => auto_select_iface(w.store, "monitor", {ap}) = None) THEN (IF "monitor" \in w.store.caps[ap] THEN ap ELSE None) ELSE auto_select_iface(w.store, "monitor", {ap})

\* 3. the verify interface: auto-selection, else the first managed-capable
SelectVerify(w, ap, deauth) == IF (w.eta.auto => auto_select_iface(w.store, "managed", {ap, deauth}) = None) THEN FirstOf({i \in w.store.present : "managed" \in w.store.caps[i]}) ELSE auto_select_iface(w.store, "managed", {ap, deauth})

\* 5. hand the AP interface over and give it the portal address; the two
\* check=True commands end the step on failure
UnmanageEnd(w, ap) == [(IF w.host.nm[ap] = "no" THEN LogAcq(w, "nm_unmanage") ELSE w) EXCEPT !.ctx.ap_iface_nm_unmanaged = TRUE]

Unmanage(w, ap, e) == IF "nmcli_show" \notin e.fail /\ w.host.nm[ap] = "yes" THEN UnmanageEnd(run_command(w, NmcliSet(ap, "no"), FALSE, FALSE, e), ap) ELSE w

AddrAdded(w) == IF w.exc = "none" THEN LogAcq(w, "ip_assign") ELSE w

AssignEnd(w, ap) == IF w.exc = "none" THEN Ret([w EXCEPT !.store.ip[ap] = TRUE], TRUE) ELSE Ret(Except(w), FALSE)

AssignApIp(w, ap, e) == AssignEnd(run_command(AddrAdded(run_command(run_command(Unmanage(w, ap, e), IpAddrFlush(ap), FALSE, FALSE, e), IpAddrAdd(ap), TRUE, FALSE, e)), IpLink(ap), TRUE, FALSE, e), ap)

\* verify_interface_name is assigned only when an interface was selected;
\* otherwise it keeps what the constructor stored
SetVerify(w, verify) == IF verify = None THEN w ELSE [w EXCEPT !.eta.verify = verify]

SelRest(w, ap, deauth, e) ==
    IF deauth = None THEN Ret(w, FALSE)
    ELSE AssignApIp(SetVerify([w EXCEPT !.eta.deauth = deauth], SelectVerify(w, ap, deauth)), ap, e)

SelAp(w, ap, e) ==
    IF ap = None THEN Ret(w, FALSE)
    ELSE SelRest([w EXCEPT !.eta.ap = ap, !.eta.ssid = w.store.ssid[ap], !.eta.nm_was_managed = ("nmcli_show" \notin e.fail /\ w.host.nm[ap] = "yes")], ap, SelectDeauth(w, ap), e)

\* select_interfaces
select_interfaces(w, e) ==
    IF w.exc # "none" THEN w
    ELSE IF w.store.present = {} THEN Ret(w, FALSE)
    ELSE SelAp(w, SelectAp(w), e)

\* find_target_ap after enable_monitor_mode returned
FtaMon(w) ==
    IF w.exc # "none" THEN w
    ELSE IF w.rv.name = None THEN Ret(w, FALSE)
    ELSE Ret(LogAcq([w EXCEPT !.eta.deauth = w.rv.name, !.ctx.deauth_iface_nm_unmanaged = w.rv.flag], "monitor"), TRUE)

\* the scan and the choice of the target.  nets is how many networks the
\* scan returned, choice what input() gave when the operator is asked,
\* channel_ok whether the chosen row's channel parses as an int
FtaScan(w, nets, choice, channel_ok) ==
    IF w.exc # "none" \/ ~w.rv THEN w
    ELSE IF nets = 0 THEN Ret(w, FALSE)
    ELSE IF ~w.eta.auto /\ nets # 1 /\ choice # "valid" THEN Ret(w, FALSE)
    ELSE IF ~channel_ok THEN Raise(w, "ValueError")
    ELSE Ret([w EXCEPT !.eta.target = TRUE], TRUE)

\* find_target_ap
find_target_ap(w, e, nets, choice, channel_ok) ==
    IF w.exc # "none" THEN w
    ELSE IF w.eta.deauth = None THEN Ret(w, FALSE)
    ELSE IF w.store.mode[w.eta.deauth] # "monitor" THEN FtaScan(FtaMon(enable_monitor_mode(w, w.eta.deauth, e)), nets, choice, channel_ok)
    ELSE FtaScan(Ret(w, TRUE), nets, choice, channel_ok)

\* run_attack_loop: credentials_captured_event.wait(timeout) is True when
\* the event was set before the timeout, False at the timeout
run_attack_loop(w) == Ret([w EXCEPT !.hist.s3 = IF w.eta.event THEN "captured" ELSE "timeout"], w.eta.event)

\* the first test of verify_and_cleanup
VerifyWanted_mut(et, attack_success) == et.verify # None

VerifyWanted(et, attack_success) == attack_success /\ et.captured_creds

\* verify_and_cleanup: verify_password is called when the attack succeeded,
\* credentials are held and a verify interface exists; its result is the
\* value returned.  Nothing is written to the context.
verify_and_cleanup(w, attack_success, verifier_ok) ==
    IF VerifyWanted(w.eta, attack_success) /\ w.eta.verify # None THEN Ret([w EXCEPT !.hist.verify_called = TRUE], verifier_ok)
    ELSE Ret(w, FALSE)

\* the four manager stops at the head of cleanup, in the code's order
StopManagers_mut(w, e, g) == stop_webserver(clear_redirection_rules(stop_dhcp_dns(stop_ap(w, g.hostapd), g.dnsmasq), e))

StopManagers(w, e, g) == stop_ap(clear_redirection_rules(stop_dhcp_dns(stop_webserver(w), g.dnsmasq), e), g.hostapd)

\* `if self.deauth_interface_name:` guarding the deauth restore
RestoreDeauthWanted_mut(et) == et.deauth # None /\ et.deauth # et.ap

RestoreDeauthWanted(et) == et.deauth # None

CleanDeauth(w, e) ==
    IF RestoreDeauthWanted(w.eta) THEN restore_interface_state(LogStep([w EXCEPT !.hist.restored = [original |-> w.eta.deauth, current |-> w.eta.deauth]], "restore_deauth"), w.eta.deauth, w.ctx.deauth_iface_nm_unmanaged, w.eta.deauth, e)
    ELSE w

\* the AP-interface part of cleanup: one try block, every command check=False
Reconnect(w, ap, e) == IF w.eta.nm_was_managed /\ w.eta.ssid THEN LogStep(run_command(w, NmcliConnect(ap), FALSE, TRUE, e), "reconnect") ELSE w

RestoreAp(w, ap, e) == Except(Reconnect(LogStep(run_command(LogStep(run_command(run_command(run_command(w, IpAddrFlush(ap), FALSE, FALSE, e), IpLink(ap), FALSE, FALSE, e), IpLink(ap), FALSE, FALSE, e), "ap_flush"), NmcliSet(ap, "yes"), FALSE, FALSE, e), "ap_nm_yes"), ap, e))

CleanAp(w, e) == IF w.eta.ap # None THEN RestoreAp(w, w.eta.ap, e) ELSE w

\* cleanup
cleanup(w, e, g) == CleanAp(CleanDeauth(StopManagers([w EXCEPT !.steps = <<>>, !.hist.swallowed = FALSE], e, g), e), e)

\* ----------------------------------------------------------------- run()
\* pc is where run() stands; ret the value it is about to return; exc the
\* exception it is about to let out.

World == [host |-> host, tr |-> tr, eta |-> eta, ctx |-> ctx, store |-> store, thread |-> thread, acq |-> acq, steps |-> steps, hist |-> hist, exc |-> "none", rv |-> FALSE]

Commit(w) ==
    /\ host' = w.host /\ tr' = w.tr /\ eta' = w.eta /\ ctx' = w.ctx /\ store' = w.store
    /\ thread' = w.thread /\ acq' = w.acq /\ steps' = w.steps /\ hist' = w.hist

\* what run() does with the outcome of a phase: `except Exception` turns an
\* exception into `return False`, anything else passes to the finally block.
\* faulty: the environment made something fail in this phase.
AfterPhase(w, next, faulty) ==
    /\ faulty => faults < MaxFaults
    /\ faults' = IF faulty THEN faults + 1 ELSE faults
    /\ Commit(w)
    /\ pc' = IF w.exc = "none" /\ w.rv THEN next ELSE "finally"
    /\ ret' = IF w.exc = "none" /\ w.rv THEN ret ELSE "False"
    /\ exc' = TryExcept(w.exc)
    /\ UNCHANGED <<pre, discovery_graph, call, cleanupCalled, cleanupExc, state_file, networks, app_context, lock, tpc, wifi_crack, files>>

\* `if evil_twin_attack:` in the finally block
FinallyRuns_mut(et, x) == et.constructed /\ x = "none"

FinallyRuns(et, x) == et.constructed

\* ------------------------------------------------------------- the host
Modes == {"managed", "AP", "monitor"}

\* radios of the hosts considered: an AP-capable radio plus a second one;
\* two radios none of which reports managed support, the second doing
\* monitor only; one full radio; one radio without AP or monitor support
HostProfiles ==
    { [present |-> {"wlan0", "wlan1"}, hw |-> [i \in Ifaces |-> IF i = "wlan0" THEN Modes ELSE {"managed", "monitor"}]],
      [present |-> {"wlan0", "wlan1"}, hw |-> [i \in Ifaces |-> IF i = "wlan0" THEN {"AP", "monitor"} ELSE {"monitor"}]],
      [present |-> {"wlan0"}, hw |-> [i \in Ifaces |-> IF i = "wlan0" THEN Modes ELSE {}]],
      [present |-> {"wlan0"}, hw |-> [i \in Ifaces |-> IF i = "wlan0" THEN {"managed"} ELSE {}]] }

\* iptables before the run: empty, or somebody else's rule and chain in t
IptablesStates == {[t \in Tables |-> FALSE]} \cup {[t \in Tables |-> t = d] : d \in {"nat", "raw"}}

\* what the properties need to remember of the run: the iptables state
\* when setup_redirection_rules was entered, how it ended, what the last
\* clear_redirection_rules returned, whether cleanup swallowed an exception,
\* how the wait of run_attack_loop ended, whether verify_password was called,
\* the phase a Ctrl-C arrived in, what run_plugin met ("not_found",
\* "raised", "returned"), and the two names cleanup passed to
\* restore_interface_state
NoHist == [setup_called |-> FALSE, setup_ok |-> FALSE, rules_before |-> [t \in Tables |-> {}], other_before |-> [t \in Tables |-> FALSE], chains_before |-> [t \in Tables |-> FALSE], rollback_called |-> FALSE, clear_ok |-> FALSE, swallowed |-> FALSE, s3 |-> "none", verify_called |-> FALSE, interrupted_at |-> "none", invoke |-> "none", cli_nomatch |-> FALSE, restored |-> [original |-> None, current |-> None]]

\* AppState.__init__: both maps of the discovery graph start empty
NewGraph == [interfaces |-> <<>>, devices |-> <<>>]

\* AppContext._init_context on a host where InterfaceManager finds no
\* interface: empty maps, an empty event log, and the key "interfaces" set
init_context == [store |-> {"interfaces"}, interfaces |-> {}, devices |-> {}, credentials |-> {}, metadata |-> {}, event_log |-> <<>>]

\* the threads of the process: the one that runs the workflow and the
\* portal's server thread
Threads == {"main", "portal"}

\* plugins/wifi_crack_automation/state/context.py: the initial values of the
\* dict, for the keys phase 1 and the cleanup of run() use
ContextDefaults == [interface |-> None, original_interface_for_nm |-> None, monitor_interface |-> None, nm_was_set_unmanaged |-> FALSE]

\* the dict objects of the plugin and the two names that refer to them:
\* `context`, the global of state/context.py, and `plugin_local_context`,
\* the name main.py bound with `from ...state.context import context`.
\* After the imports both name the dict created when the module was loaded.
ImportedContext == [dicts |-> [imported |-> ContextDefaults, fresh |-> ContextDefaults], context |-> "imported", plugin_local_context |-> "imported"]

\* the state file does not exist yet
NoFile == [exists |-> FALSE, data |-> NewGraph]

\* no update_* call has been made yet
NoCall == [op |-> "none", map |-> "none", patch |-> <<>>, before |-> <<>>]

InitHost(p, nm0, km, fwd0, ipt0) ==
    /\ host = [ip_forward |-> fwd0, rules |-> [t \in Tables |-> {}], other |-> ipt0, chains |-> ipt0, nm |-> nm0, kmode |-> [n \in Names |-> IF n \in p.present THEN km[n] ELSE "absent"], hw |-> p.hw, addr |-> [i \in Ifaces |-> FALSE], hostapd |-> "none", dnsmasq |-> "none", credfile |-> 0]
    /\ store = [present |-> p.present, caps |-> p.hw, mode |-> km, ssid |-> [i \in Ifaces |-> i \in p.present /\ nm0[i] = "yes"], ip |-> [i \in Ifaces |-> FALSE]]

InitObjects ==
    /\ pre = host @@ [store |-> store]
    /\ tr = [applied |-> <<>>, fwd |-> FALSE]
    /\ eta = [constructed |-> FALSE, auto |-> FALSE, ap |-> None, deauth |-> None, verify |-> None, nm_was_managed |-> FALSE, ssid |-> FALSE, target |-> FALSE, hostapd_process |-> None, dnsmasq_process |-> None, httpd_thread |-> None, cf_global |-> TRUE, cb_global |-> FALSE, event |-> FALSE, captured_creds |-> FALSE]
    /\ ctx = [ap_iface_nm_unmanaged |-> FALSE, deauth_iface_nm_unmanaged |-> FALSE, cracked_password |-> FALSE]
    /\ thread = "none" /\ acq = <<>> /\ steps = <<>> /\ hist = NoHist
    /\ ret = "None" /\ exc = "none" /\ cleanupCalled = FALSE /\ cleanupExc = "none" /\ faults = 0
    /\ discovery_graph = NewGraph /\ call = NoCall
    /\ files = {}
    /\ wifi_crack = ImportedContext
    /\ tpc = [t \in Threads |-> "idle"]
    /\ lock = [owner |-> None, count |-> 0]
    /\ app_context = init_context
    /\ networks = <<>>
    /\ state_file = NoFile

Init ==
    /\ \E p \in HostProfiles, nm \in {"yes", "no"}, fwd0 \in {0, 1}, ipt0 \in IptablesStates :
          InitHost(p, [i \in Ifaces |-> IF i \in p.present THEN nm ELSE "no"], [i \in Ifaces |-> "managed"], fwd0, ipt0)
    /\ InitObjects
    /\ pc = "start"

\* ---------------------------------------------------------------- actions
\* classes of external commands that fail together in one operation:
\* nmcli queries, nmcli changes, ip and iw, airmon-ng, sysctl, iptables
CmdClasses == {"nmcli_show", "nmcli_set", "iplink", "airmon", "sysctl", "iptables"}

\* only the nmcli reconnect is run with a timeout, so only the nmcli_set
\* class can time out; when no class fails the kind plays no part
Envs(classes) == {x \in {Env(f, k, 0) : f \in SUBSET classes, k \in FailKinds} : /\ x.kind = "timeout" => x.fail \subseteq {"nmcli_set"}
                                                                                 /\ x.fail = {} => x.kind = "nonzero"
                                                                                 /\ x.fail # {} => faults < MaxFaults}

Faulty(e) == e.fail # {} \/ e.k # 0

\* what a scan and the operator's answer can be: no network, one, or several
\* with a valid, an out-of-range or an unreadable answer; cli says whether
\* the command line named a target that none of the scanned networks matches
Scans ==
    {x \in [nets : 0..MaxNets, choice : {"valid", "invalid", "eof"}, channel_ok : BOOLEAN, cli : {"none", "nomatch"}] :
        /\ x.nets < 2 => x.choice = "valid"
        /\ (x.nets = 0 \/ x.choice # "valid") => x.channel_ok
        /\ x.nets = 0 => x.cli = "none"}

\* find_target_ap looks the target up in the context (target_bssid,
\* target_ssid, target_channel), where run() never puts the command-line
\* values, so its choice does not depend on them; the run remembers them
WithCliTarget(w, cli) == [w EXCEPT !.hist.cli_nomatch = (cli = "nomatch")]

\* argument parsing raises (int() of --target-channel) before the object exists
ParseArgsFails ==
    /\ pc = "start"
    /\ pc' = "finally" /\ ret' = "False"
    /\ UNCHANGED <<host, pre, discovery_graph, call, tr, eta, ctx, store, thread, acq, steps, exc, cleanupCalled, cleanupExc, hist, faults, state_file, networks, app_context, lock, tpc, wifi_crack, files>>

\* EvilTwinAttack(...): the CLI names land in the object as they are
Construct ==
    /\ pc = "start"
    /\ \E auto \in BOOLEAN, ap_cli \in {None, "wlan0"}, deauth_cli \in {None, "wlan1"}, verify_cli \in {None, "wlan1"} :
          eta' = [eta EXCEPT !.constructed = TRUE, !.auto = auto, !.ap = ap_cli, !.deauth = deauth_cli, !.verify = verify_cli, !.cf_global = TRUE]
    /\ pc' = "S0"
    /\ UNCHANGED <<host, pre, discovery_graph, call, tr, ctx, store, thread, acq, steps, ret, exc, cleanupCalled, cleanupExc, hist, faults, state_file, networks, app_context, lock, tpc, wifi_crack, files>>

S0_select_interfaces ==
    /\ pc = "S0"
    /\ \E e \in Envs({"nmcli_show", "nmcli_set", "iplink"}) : \E w \in {select_interfaces(World, e)} : AfterPhase(w, "S1", Faulty(e))

S1_find_target_ap ==
    /\ pc = "S1"
    /\ \E e \in Envs({"nmcli_show", "nmcli_set", "iplink", "airmon"}), x \in Scans :
          \E w \in {find_target_ap(WithCliTarget(World, x.cli), e, x.nets, x.choice, x.channel_ok)} : AfterPhase(w, "S2_ap", Faulty(e))

S2_start_ap ==
    /\ pc = "S2_ap"
    /\ \E spawn \in Spawns : \E w \in {IF eta.target /\ eta.ap # None THEN start_ap(World, eta.ap, spawn) ELSE Ret(World, FALSE)} : AfterPhase(w, "S2_dhcp", spawn # "ok")

S2_start_dhcp_dns ==
    /\ pc = "S2_dhcp"
    /\ \E spawn \in Spawns : \E w \in {start_dhcp_dns(World, spawn)} : AfterPhase(w, "S2_fwd", spawn # "ok")

S2_enable_ip_forwarding ==
    /\ pc = "S2_fwd"
    /\ \E e \in Envs({"sysctl"}) : \E w \in {enable_ip_forwarding(World, e)} : AfterPhase(w, "S2_ipt", Faulty(e))

S2_setup_redirection_rules ==
    /\ pc = "S2_ipt"
    /\ \E f \in SUBSET {"sysctl", "iptables"}, k \in 0..NumRules : \E w \in {setup_redirection_rules(World, Env(f, "nonzero", k))} : AfterPhase(w, "S2_web", f # {} \/ k # 0)

S2_start_webserver ==
    /\ pc = "S2_web"
    /\ \E webroot_ok \in BOOLEAN : \E w \in {start_webserver_begin(World, webroot_ok)} : AfterPhase(w, "S2_web_check", ~webroot_ok)

S2_start_webserver_check ==
    /\ pc = "S2_web_check"
    /\ \E w \in {start_webserver_check(World)} : AfterPhase(w, "S3", FALSE)

\* the daemon thread gets to run
ServerThread ==
    /\ thread = "alive"
    /\ thread' = run_flask_app_in_thread(thread)
    /\ UNCHANGED <<host, pre, discovery_graph, call, tr, eta, ctx, store, acq, steps, pc, ret, exc, cleanupCalled, cleanupExc, hist, faults, state_file, networks, app_context, lock, tpc, wifi_crack, files>>

\* run_attack_loop returns; hist.s3 is run()'s local attack_success
S3_run_attack_loop ==
    /\ pc = "S3"
    /\ \E w \in {run_attack_loop(World)} : Commit(w)
    /\ pc' = "S4"
    /\ UNCHANGED <<pre, discovery_graph, call, ret, exc, cleanupCalled, cleanupExc, faults, state_file, networks, app_context, lock, tpc, wifi_crack, files>>

\* attack_succeeded = verify_and_cleanup(attack_success); run() falls to the
\* finally block with it
S4_verify_and_cleanup ==
    /\ pc = "S4"
    /\ \E verifier_ok \in BOOLEAN : \E w \in {verify_and_cleanup(World, hist.s3 = "captured", verifier_ok)} :
          /\ Commit(w)
          /\ ret' = IF w.rv THEN "True" ELSE "False"
    /\ pc' = "finally"
    /\ UNCHANGED <<pre, discovery_graph, call, exc, cleanupCalled, cleanupExc, faults, state_file, networks, app_context, lock, tpc, wifi_crack, files>>

\* Ctrl-C while run() is in one of its phases
KeyboardInterrupt ==
    /\ pc \in {"S0", "S1", "S2_ap", "S2_dhcp", "S2_fwd", "S2_ipt", "S2_web", "S2_web_check", "S3"}
    /\ pc' = "finally" /\ exc' = "KeyboardInterrupt"
    /\ hist' = [hist EXCEPT !.interrupted_at = pc]
    /\ UNCHANGED <<host, pre, discovery_graph, call, tr, eta, ctx, store, thread, acq, steps, ret, cleanupCalled, cleanupExc, faults, state_file, networks, app_context, lock, tpc, wifi_crack, files>>

\* the finally block, then run() returns or lets the exception out
Finally ==
    /\ pc = "finally"
    /\ IF FinallyRuns(eta, exc)
       THEN \E e \in Envs(CmdClasses \ {"nmcli_show"}), g \in {[hostapd |-> b, dnsmasq |-> b] : b \in BOOLEAN} :
               \E w \in {cleanup(World, e, g)} :
                  /\ Commit(w)
                  /\ faults' = IF Faulty(e) THEN faults + 1 ELSE faults
                  /\ cleanupCalled' = TRUE
                  /\ cleanupExc' = w.exc
                  /\ exc' = IF w.exc # "none" THEN w.exc ELSE exc
                  /\ pc' = IF w.exc # "none" \/ exc # "none" THEN "propagated" ELSE "returned"
       ELSE /\ pc' = IF exc # "none" THEN "propagated" ELSE "returned"
            /\ UNCHANGED <<host, tr, eta, ctx, store, thread, acq, steps, exc, cleanupCalled, cleanupExc, hist, faults>>
    /\ UNCHANGED <<pre, discovery_graph, call, ret, state_file, networks, app_context, lock, tpc, wifi_crack, files>>

\* ------------------------------------------------ CapGateRunner.run_plugin
\* pc = "start" is run_plugin entered; "invoke_returned" and
\* "invoke_propagated" are its two ends, ret and exc what it hands back.

\* the name is not in plugin_loader.plugins: `return None`
RunPluginNotFound ==
    /\ pc = "start"
    /\ pc' = "invoke_returned" /\ ret' = "None"
    /\ hist' = [hist EXCEPT !.invoke = "not_found"]
    /\ UNCHANGED <<host, pre, discovery_graph, call, tr, eta, ctx, store, thread, acq, steps, exc, cleanupCalled, cleanupExc, faults, state_file, networks, app_context, lock, tpc, wifi_crack, files>>

\* the plugin's module has no run(): plugin.module.run raises AttributeError
\* inside the try block
RunPluginNoEntry ==
    /\ pc = "start"
    /\ pc' = "propagated" /\ exc' = "AttributeError"
    /\ UNCHANGED <<host, pre, discovery_graph, call, tr, eta, ctx, store, thread, acq, steps, ret, cleanupCalled, cleanupExc, hist, faults, state_file, networks, app_context, lock, tpc, wifi_crack, files>>

\* `return plugin.module.run(...)` / `except Exception: ... return`
run_plugin(r, x) ==
    IF x = "none" THEN [ret |-> r, exc |-> "none"]
    ELSE IF Catches(x) THEN [ret |-> "None", exc |-> "none"]
    ELSE [ret |-> r, exc |-> x]

RunPluginEnd ==
    /\ pc \in {"returned", "propagated"}
    /\ ret' = run_plugin(ret, exc).ret
    /\ exc' = run_plugin(ret, exc).exc
    /\ pc' = IF run_plugin(ret, exc).exc = "none" THEN "invoke_returned" ELSE "invoke_propagated"
    /\ hist' = [hist EXCEPT !.invoke = IF exc = "none" THEN "returned" ELSE "raised"]
    /\ UNCHANGED <<host, pre, discovery_graph, call, tr, eta, ctx, store, thread, acq, steps, cleanupCalled, cleanupExc, faults, state_file, networks, app_context, lock, tpc, wifi_crack, files>>

\* runtime_meta of a CapGateContext that nothing has written to
NewRuntimeMeta == [ap_iface_nm_unmanaged |-> FALSE, deauth_iface_nm_unmanaged |-> FALSE, cracked_password |-> FALSE]

\* the runner is asked to run a plugin again in the same process: run_plugin
\* hands over self.context, the singleton that get_context() returned
RunPluginAgain ==
    /\ pc = "invoke_returned"
    /\ pc' = "second_start"
    /\ UNCHANGED <<host, pre, discovery_graph, call, tr, eta, ctx, store, thread, acq, steps, ret, exc, cleanupCalled, cleanupExc, hist, faults, state_file, networks, app_context, lock, tpc, wifi_crack, files>>

Next ==
    \/ RunPluginNotFound
    \/ RunPluginNoEntry
    \/ ParseArgsFails
    \/ Construct
    \/ S0_select_interfaces
    \/ S1_find_target_ap
    \/ S2_start_ap
    \/ S2_start_dhcp_dns
    \/ S2_enable_ip_forwarding
    \/ S2_setup_redirection_rules
    \/ S2_start_webserver
    \/ S2_start_webserver_check
    \/ ServerThread
    \/ S3_run_attack_loop
    \/ S4_verify_and_cleanup
    \/ KeyboardInterrupt
    \/ Finally
    \/ RunPluginEnd
    \/ RunPluginAgain

Spec == Init /\ [][Next]_vars

\* ------------------------------------------- the workflow with a client
\* A client posts a username and a password to /login while the portal
\* thread is up: login_handler runs.  The workflow is otherwise the same.
LoginPost ==
    /\ thread = "alive"
    /\ host.credfile < MaxPosts
    /\ \E w \in {login_handler(World)} : Commit(w)
    /\ UNCHANGED <<pre, discovery_graph, call, pc, ret, exc, cleanupCalled, cleanupExc, faults, state_file, networks, app_context, lock, tpc, wifi_crack, files>>

NextPortal == Next \/ LoginPost

SpecPortal == Init /\ [][NextPortal]_vars

\* ------------------------------------- the monitor-mode pair on its own
\* A caller that enables monitor mode on an interface and later hands the
\* returned pair back to restore_interface_state, with the interface in
\* managed or in monitor mode before the call.  ret keeps the call's
\* argument and result, and nm_set: whether its NetworkManager block set
\* the interface unmanaged.

InitIC ==
    /\ \E p \in HostProfiles, nm \in {"yes", "no"}, km \in [Ifaces -> {"managed", "monitor"}] :
          /\ \A i \in Ifaces : km[i] = "monitor" => i \in p.present /\ "monitor" \in p.hw[i]
          /\ InitHost(p, [i \in Ifaces |-> IF i \in p.present THEN nm ELSE "no"], km, 0, [t \in Tables |-> FALSE])
    /\ InitObjects
    /\ pc = "ic_start"

ICEnable ==
    /\ pc = "ic_start"
    /\ \E i \in store.present, e \in Envs({"nmcli_show", "nmcli_set", "iplink", "airmon"}) :
          \E w \in {enable_monitor_mode(World, i, e)} :
             /\ Commit(w)
             /\ ret' = [i |-> i, name |-> w.rv.name, flag |-> w.rv.flag, nm_set |-> EmmNm(World, i, e).rv.flag]
             /\ exc' = w.exc
             /\ faults' = IF Faulty(e) THEN faults + 1 ELSE faults
    /\ pc' = "ic_enabled"
    /\ UNCHANGED <<pre, discovery_graph, call, cleanupCalled, cleanupExc, state_file, networks, app_context, lock, tpc, wifi_crack, files>>

ICRestore ==
    /\ pc = "ic_enabled"
    /\ \E e \in Envs({"nmcli_set", "iplink", "airmon"}) :
          \E w \in {restore_interface_state(World, ret.i, ret.flag, ret.name, e)} :
             /\ Commit(w)
             /\ exc' = w.exc
             /\ faults' = IF Faulty(e) THEN faults + 1 ELSE faults
    /\ pc' = "ic_restored"
    /\ UNCHANGED <<pre, discovery_graph, call, ret, cleanupCalled, cleanupExc, state_file, networks, app_context, lock, tpc, wifi_crack, files>>

NextIC == ICEnable \/ ICRestore

SpecIC == InitIC /\ [][NextIC]_vars

\* ------------------------------------------------- CredentialVerifier
NmcliDisconnect(n) == [tool |-> "nmcli_set", verb |-> "disconnect", dev |-> n, arg |-> "", num |-> 0]

NmcliConAdd(n) == [tool |-> "nmcli_set", verb |-> "con_add", dev |-> n, arg |-> "", num |-> 0]

NmcliConUp == [tool |-> "nmcli_set", verb |-> "con_up", dev |-> None, arg |-> "", num |-> 0]

NmcliConDelete == [tool |-> "nmcli_set", verb |-> "con_delete", dev |-> None, arg |-> "", num |-> 0]

\* how `nmcli con up` can end by itself: the password is right, or nmcli
\* exits non-zero, or it is still trying when the timeout expires
UpResults == {"ok", "nonzero", "timeout"}

\* step 1: `nm_managed_by_us` is set when the status shows the interface
\* managed; the disconnect and `managed no` are run with check=False
VpUnmanageWanted(w, i, e) == "nmcli_show" \notin e.fail /\ w.host.nm[i] = "yes"

VpUnmanage(w, i, e) ==
    IF VpUnmanageWanted(w, i, e) THEN LogStep(run_command(run_command(w, NmcliDisconnect(i), FALSE, FALSE, e), NmcliSet(i, "no"), FALSE, FALSE, e), "verify_nm_no")
    ELSE w

\* step 3: `nmcli con up` with check=True and a timeout, inside the inner
\* try that handles TimeoutExpired and CalledProcessError; Ctrl-C can arrive
\* while it waits
VpUpOutcome(w, e, up) == IF RunOutcome(w.host, NmcliConUp, TRUE, e) # "ok" THEN RunOutcome(w.host, NmcliConUp, TRUE, e) ELSE up

VpUp(w, e, up, intr) ==
    IF w.exc # "none" THEN w
    ELSE IF intr THEN Raise(w, "KeyboardInterrupt")
    ELSE IF VpUpOutcome(w, e, up) = "ok" THEN Ret(w, TRUE)
    ELSE IF VpUpOutcome(w, e, up) = "missing" THEN Raise(w, "FileNotFoundError")
    ELSE w

\* entering a finally block: it runs whatever is propagating
FinallyEntry_mut(w) == w

FinallyEntry(w) == [w EXCEPT !.exc = "none"]

\* leaving it: what was propagating goes on, unless the block raised itself
FinallyExit(w, before) == IF w.exc # "none" THEN w ELSE [w EXCEPT !.exc = before.exc]

\* steps 4 and 5, the finally block: delete the profile, then give the
\* interface back to NetworkManager if nm_managed_by_us
VpRestore(w, i, nm_managed_by_us, e) == IF nm_managed_by_us THEN LogStep(run_command(w, NmcliSet(i, "yes"), FALSE, FALSE, e), "verify_nm_yes") ELSE w

VpFinally(w, i, nm_managed_by_us, e) == FinallyExit(VpRestore(LogStep(run_command(FinallyEntry(w), NmcliConDelete, FALSE, FALSE, e), "con_delete"), i, nm_managed_by_us, e), w)

\* CredentialVerifier.verify_password; rv is connection_successful
verify_password(w, i, e, up, intr) ==
    VpFinally(Except(VpUp(run_command(Ret(VpUnmanage(w, i, e), FALSE), NmcliConAdd(i), TRUE, FALSE, e), e, up, intr)), i, VpUnmanageWanted(w, i, e), e)

\* one call of verify_password on an interface of the store
VerifyPassword ==
    /\ pc = "start"
    /\ \E i \in store.present, e \in Envs({"nmcli_show", "nmcli_set"}), up \in UpResults, intr \in BOOLEAN :
          \E w \in {verify_password(World, i, e, up, intr)} :
             /\ Commit(w)
             /\ exc' = w.exc
             /\ ret' = IF w.exc # "none" THEN "None" ELSE IF w.rv THEN "True" ELSE "False"
             /\ faults' = IF Faulty(e) THEN faults + 1 ELSE faults
    /\ pc' = "verified"
    /\ UNCHANGED <<pre, discovery_graph, call, state_file, cleanupCalled, cleanupExc, networks, app_context, lock, tpc, wifi_crack, files>>

NextVerify == VerifyPassword

SpecVerify == Init /\ [][NextVerify]_vars

\* ------------------------------------------------- AppState update_*
\* the Python dicts of the discovery graph: a function from the keys it holds
\* (interface names, device addresses) to their entries
MaxKeys == 2

Keys == 1..MaxKeys

Entries == {"old", "new"}

Dicts == UNION {[K -> Entries] : K \in SUBSET Keys}

update_mut(d, patch) == patch

\* dict.update: the patch's keys take the patch's values, other keys stay
update(d, patch) == [k \in (DOMAIN d) \cup (DOMAIN patch) |-> IF k \in DOMAIN patch THEN patch[k] ELSE d[k]]

Called(op, map, patch) == [op |-> op, map |-> map, patch |-> patch, before |-> discovery_graph[map]]

update_interfaces ==
    /\ \E interfaces_data \in Dicts :
          /\ discovery_graph' = [discovery_graph EXCEPT !.interfaces = update(@, interfaces_data)]
          /\ call' = Called("update_interfaces", "interfaces", interfaces_data)
    /\ UNCHANGED <<host, pre, tr, eta, ctx, store, thread, acq, steps, pc, ret, exc, cleanupCalled, cleanupExc, hist, faults, state_file, networks, app_context, lock, tpc, wifi_crack, files>>

update_devices ==
    /\ \E devices_data \in Dicts :
          /\ discovery_graph' = [discovery_graph EXCEPT !.devices = update(@, devices_data)]
          /\ call' = Called("update_devices", "devices", devices_data)
    /\ UNCHANGED <<host, pre, tr, eta, ctx, store, thread, acq, steps, pc, ret, exc, cleanupCalled, cleanupExc, hist, faults, state_file, networks, app_context, lock, tpc, wifi_crack, files>>

NextState == update_interfaces \/ update_devices

\* a new AppState; no workflow is running on the host
InitState ==
    /\ \E p \in HostProfiles :
          /\ p.present = {"wlan0"} /\ "AP" \in p.hw["wlan0"]
          /\ InitHost(p, [i \in Ifaces |-> "no"], [i \in Ifaces |-> "managed"], 0, [t \in Tables |-> FALSE])
    /\ InitObjects
    /\ pc = "start"

SpecState == InitState /\ [][NextState]_vars

\* ------------------------------------------- scans, loads and the state file
\* the MAC 00:00:00:00:00:00 among the keys of the devices map
ZeroMac == 0

\* the MACs an ARP table or an ARP reply can report
Macs == Keys \cup {ZeroMac}

\* the most entries one ARP table, or the replies to one active scan, hold
MaxArp == 1

ArpReports == {S \in SUBSET Macs : Cardinality(S) <= MaxArp}

\* the entries a scan or a discovery file brings for the keys K
Found(K) == [k \in K |-> "new"]

\* scan_interfaces_and_update_state: one update_interfaces with what was
\* found; nothing when `ip link show` fails
scan_interfaces_and_update_state(g, found) == [g EXCEPT !.interfaces = update(@, Found(found))]

\* the passive scan skips the zero MAC and stores every other entry
scan_devices_from_arp_table_and_update_state(g, entries) == [g EXCEPT !.devices = update(@, Found(entries \ {ZeroMac}))]

\* step 3 of _initialize_core_state: every reply with a mac and an ip is stored
active_arp_scan(g, discovered) == [g EXCEPT !.devices = update(@, Found(discovered))]

\* CapGateRunner._initialize_core_state; the active scan runs on interfaces
\* of the map that are up and have an address, so not on an empty map
initialize_core_state ==
    /\ \E found \in SUBSET Keys, entries \in ArpReports, discovered \in ArpReports :
          \E g \in {scan_devices_from_arp_table_and_update_state(scan_interfaces_and_update_state(discovery_graph, found), entries)} :
             /\ discovered # {} => DOMAIN g.interfaces # {}
             /\ discovery_graph' = active_arp_scan(g, discovered)
    /\ call' = NoCall
    /\ UNCHANGED <<host, pre, tr, eta, ctx, store, thread, acq, steps, pc, ret, exc, cleanupCalled, cleanupExc, hist, faults, state_file, networks, app_context, lock, tpc, wifi_crack, files>>

\* CapGateRunner.load_discovery_json: nothing when no file is found or it
\* holds an empty object, else both maps are updated with the file's maps
load_discovery_json ==
    /\ \E found \in BOOLEAN, interfaces \in SUBSET Keys, devices \in SUBSET Macs :
          /\ ~found => interfaces = {} /\ devices = {}
          /\ discovery_graph' = IF found THEN [interfaces |-> update(discovery_graph.interfaces, Found(interfaces)), devices |-> update(discovery_graph.devices, Found(devices))] ELSE discovery_graph
    /\ call' = NoCall
    /\ UNCHANGED <<host, pre, tr, eta, ctx, store, thread, acq, steps, pc, ret, exc, cleanupCalled, cleanupExc, hist, faults, state_file, networks, app_context, lock, tpc, wifi_crack, files>>

\* AppState.save_to_file: the graph is written out unless the write fails
save_to_file ==
    /\ \E io_ok \in BOOLEAN : state_file' = IF io_ok THEN [exists |-> TRUE, data |-> discovery_graph] ELSE state_file
    /\ call' = NoCall
    /\ UNCHANGED <<host, pre, tr, eta, ctx, store, thread, acq, steps, pc, ret, exc, cleanupCalled, cleanupExc, hist, faults, discovery_graph, networks, app_context, lock, tpc, wifi_crack, files>>

\* AppState.load_from_file: the graph becomes what the file holds, or two
\* empty maps when the file is missing or cannot be read
load_from_file ==
    /\ \E io_ok \in BOOLEAN :
          discovery_graph' = IF io_ok /\ state_file.exists THEN [interfaces |-> state_file.data.interfaces, devices |-> state_file.data.devices] ELSE NewGraph
    /\ call' = NoCall
    /\ UNCHANGED <<host, pre, tr, eta, ctx, store, thread, acq, steps, pc, ret, exc, cleanupCalled, cleanupExc, hist, faults, state_file, networks, app_context, lock, tpc, wifi_crack, files>>

\* the runner's operations on the store; the scans and load_discovery_json
\* are the callers of update_interfaces and update_devices
NextStore == initialize_core_state \/ load_discovery_json \/ save_to_file \/ load_from_file

SpecStore == InitState /\ [][NextStore]_vars

\* ------------------------------------------------- AppState._lock
\* tpc[t] is where thread t stands: "idle", or at the statement that reads
\* or writes the maps inside one of the operations below.  lock is the
\* RLock: its owner and how many times the owner has acquired it.

\* `with self._lock:` blocks until the lock is free or already the thread's
CanAcquire(t) == lock.owner \in {None, t}

Acquire(t) == [owner |-> t, count |-> lock.count + 1]

Release(t) == IF lock.count = 1 THEN [owner |-> None, count |-> 0] ELSE [lock EXCEPT !.count = @ - 1]

\* the positions at which a thread reads or writes the maps
Accessing == {"update_write", "to_dict_read", "ref_read", "direct_read"}

\* update_devices: `with self._lock:` entered, the thread is at the update
UpdateEnter(t) ==
    /\ tpc[t] = "idle" /\ CanAcquire(t)
    /\ lock' = Acquire(t)
    /\ tpc' = [tpc EXCEPT ![t] = "update_write"]
    /\ UNCHANGED <<host, pre, tr, eta, ctx, store, thread, acq, steps, pc, ret, exc, cleanupCalled, cleanupExc, hist, faults, call, state_file, networks, app_context, discovery_graph, wifi_crack, files>>

\* the update done, the with block is left
UpdateExit(t) ==
    /\ tpc[t] = "update_write"
    /\ \E devices_data \in Dicts : discovery_graph' = [discovery_graph EXCEPT !.devices = update(@, devices_data)]
    /\ lock' = Release(t)
    /\ tpc' = [tpc EXCEPT ![t] = "idle"]
    /\ UNCHANGED <<host, pre, tr, eta, ctx, store, thread, acq, steps, pc, ret, exc, cleanupCalled, cleanupExc, hist, faults, call, state_file, networks, app_context, wifi_crack, files>>

\* save_to_file: `with self._lock:` entered, to_dict is about to be called
SaveEnter(t) ==
    /\ tpc[t] = "idle" /\ CanAcquire(t)
    /\ lock' = Acquire(t)
    /\ tpc' = [tpc EXCEPT ![t] = "save_locked"]
    /\ UNCHANGED <<host, pre, tr, eta, ctx, store, thread, acq, steps, pc, ret, exc, cleanupCalled, cleanupExc, hist, faults, call, state_file, networks, app_context, discovery_graph, wifi_crack, files>>

\* to_dict takes the lock a second time and copies the maps
ToDictEnter(t) ==
    /\ tpc[t] = "save_locked" /\ CanAcquire(t)
    /\ lock' = Acquire(t)
    /\ tpc' = [tpc EXCEPT ![t] = "to_dict_read"]
    /\ UNCHANGED <<host, pre, tr, eta, ctx, store, thread, acq, steps, pc, ret, exc, cleanupCalled, cleanupExc, hist, faults, call, state_file, networks, app_context, discovery_graph, wifi_crack, files>>

ToDictExit(t) ==
    /\ tpc[t] = "to_dict_read"
    /\ lock' = Release(t)
    /\ tpc' = [tpc EXCEPT ![t] = "save_dump"]
    /\ UNCHANGED <<host, pre, tr, eta, ctx, store, thread, acq, steps, pc, ret, exc, cleanupCalled, cleanupExc, hist, faults, call, state_file, networks, app_context, discovery_graph, wifi_crack, files>>

SaveExit(t) ==
    /\ tpc[t] = "save_dump"
    /\ lock' = Release(t)
    /\ tpc' = [tpc EXCEPT ![t] = "idle"]
    /\ UNCHANGED <<host, pre, tr, eta, ctx, store, thread, acq, steps, pc, ret, exc, cleanupCalled, cleanupExc, hist, faults, call, state_file, networks, app_context, discovery_graph, wifi_crack, files>>

\* get_discovery_graph: the with block holds only `return self.discovery_graph`
GetGraphEnter(t) ==
    /\ tpc[t] = "idle" /\ CanAcquire(t)
    /\ lock' = Acquire(t)
    /\ tpc' = [tpc EXCEPT ![t] = "get_locked"]
    /\ UNCHANGED <<host, pre, tr, eta, ctx, store, thread, acq, steps, pc, ret, exc, cleanupCalled, cleanupExc, hist, faults, call, state_file, networks, app_context, discovery_graph, wifi_crack, files>>

\* it returns the dict itself; the caller is at `.get("interfaces", {}).get(name)`
GetGraphReturn(t) ==
    /\ tpc[t] = "get_locked"
    /\ lock' = Release(t)
    /\ tpc' = [tpc EXCEPT ![t] = "ref_read"]
    /\ UNCHANGED <<host, pre, tr, eta, ctx, store, thread, acq, steps, pc, ret, exc, cleanupCalled, cleanupExc, hist, faults, call, state_file, networks, app_context, discovery_graph, wifi_crack, files>>

\* the runner reads `self.app_state.discovery_graph['devices']` directly
DirectRead(t) ==
    /\ tpc[t] = "idle"
    /\ tpc' = [tpc EXCEPT ![t] = "direct_read"]
    /\ UNCHANGED <<host, pre, tr, eta, ctx, store, thread, acq, steps, pc, ret, exc, cleanupCalled, cleanupExc, hist, faults, call, state_file, networks, app_context, discovery_graph, lock, wifi_crack, files>>

\* the caller's read is over
ReadDone(t) ==
    /\ tpc[t] \in {"ref_read", "direct_read"}
    /\ tpc' = [tpc EXCEPT ![t] = "idle"]
    /\ UNCHANGED <<host, pre, tr, eta, ctx, store, thread, acq, steps, pc, ret, exc, cleanupCalled, cleanupExc, hist, faults, call, state_file, networks, app_context, discovery_graph, lock, wifi_crack, files>>

NextLock ==
    \E t \in Threads :
        \/ UpdateEnter(t)
        \/ UpdateExit(t)
        \/ SaveEnter(t)
        \/ ToDictEnter(t)
        \/ ToDictExit(t)
        \/ SaveExit(t)
        \/ GetGraphEnter(t)
        \/ GetGraphReturn(t)
        \/ DirectRead(t)
        \/ ReadDone(t)

SpecLock == InitState /\ [][NextLock]_vars

\* ---------------------------------------------------------- AppContext
\* the most events logged in one run
MaxEvents == 3

\* item ids and free-form keys used by the callers
ItemIds == {"wlan0", "aa:bb:cc:dd:ee:ff"}

StoreKeys == {"interfaces", "target"}

\* the categories update() is called with; "other" is one it does not know
Categories == {"interface", "device", "credential", "meta", "other"}

\* _log_event: one entry appended at the end of the log
log_event(c, type, id) == [c EXCEPT !.event_log = Append(@, [type |-> type, id |-> id])]

\* AppContext.update: the item goes into its category's map and the event
\* is logged; an unknown category is only warned about
ctx_update(c, category, item_id) ==
    CASE category = "interface" -> log_event([c EXCEPT !.interfaces = @ \cup {item_id}], category, item_id)
      [] category = "device" -> log_event([c EXCEPT !.devices = @ \cup {item_id}], category, item_id)
      [] category = "credential" -> log_event([c EXCEPT !.credentials = @ \cup {item_id}], category, item_id)
      [] category = "meta" -> log_event([c EXCEPT !.metadata = @ \cup {item_id}], category, item_id)
      [] OTHER -> c

\* AppContext.clear: the store, the four maps and the event log are emptied
ctx_clear(c) == [store |-> {}, interfaces |-> {}, devices |-> {}, credentials |-> {}, metadata |-> {}, event_log |-> <<>>]

ContextSet ==
    /\ \E key \in StoreKeys : app_context' = [app_context EXCEPT !.store = @ \cup {key}]
    /\ UNCHANGED <<host, pre, tr, eta, ctx, store, thread, acq, steps, pc, ret, exc, cleanupCalled, cleanupExc, hist, faults, discovery_graph, call, state_file, networks, lock, tpc, wifi_crack, files>>

ContextUpdate ==
    /\ Len(app_context.event_log) < MaxEvents
    /\ \E category \in Categories, item_id \in ItemIds : app_context' = ctx_update(app_context, category, item_id)
    /\ UNCHANGED <<host, pre, tr, eta, ctx, store, thread, acq, steps, pc, ret, exc, cleanupCalled, cleanupExc, hist, faults, discovery_graph, call, state_file, networks, lock, tpc, wifi_crack, files>>

ContextClear ==
    /\ app_context' = ctx_clear(app_context)
    /\ UNCHANGED <<host, pre, tr, eta, ctx, store, thread, acq, steps, pc, ret, exc, cleanupCalled, cleanupExc, hist, faults, discovery_graph, call, state_file, networks, lock, tpc, wifi_crack, files>>

\* as_dict copies the store and the log; the context stays as it is
ContextExport ==
    /\ ret' = "exported"
    /\ UNCHANGED <<host, pre, tr, eta, ctx, store, thread, acq, steps, pc, exc, cleanupCalled, cleanupExc, hist, faults, discovery_graph, call, state_file, networks, app_context, lock, tpc, wifi_crack, files>>

NextContext == ContextSet \/ ContextUpdate \/ ContextClear \/ ContextExport

SpecContext == InitState /\ [][NextContext]_vars

\* ------------------------------------------------- interface entries
\* the network devices `ip link show` can list
Nics == {"wlan0", "eth0"}

\* the curated list of iface_scanner.py (one of its six)
WifiDrivers == {"iwlwifi"}

\* what `ethtool -i` can report: a curated Wi-Fi driver, another driver, or
\* nothing when ethtool fails
Drivers == WifiDrivers \cup {"r8169", "none"}

\* Interface(**data): a field the data lacks takes the schema's default
Interface(data) == data @@ [is_wireless |-> FALSE, mode |-> "managed", driver |-> "none"]

\* the scanner's local is_wireless: it decides whether `iw dev info` is asked
LocalIsWireless(driver) == driver \in WifiDrivers

\* iface_data as the scanner builds it for one device: driver and mode;
\* the mode is what iw reports when it was asked and answered
iface_data(driver, type, iw_ok) == [driver |-> driver, mode |-> IF LocalIsWireless(driver) /\ iw_ok THEN type ELSE "ethernet"]

\* what the host shows for its devices at one scan
LinkInfos == [driver : Drivers, type : {"managed", "monitor", "AP"}, iw_ok : BOOLEAN]

\* scan_interfaces_and_update_state on the devices listed
ScanInterfaces ==
    /\ \E listed \in SUBSET Nics : \E info \in [listed -> LinkInfos] :
          discovery_graph' = [discovery_graph EXCEPT !.interfaces = update(@, [n \in listed |-> Interface(iface_data(info[n].driver, info[n].type, info[n].iw_ok))])]
    /\ pc' = "iface_scanned"
    /\ call' = NoCall
    /\ UNCHANGED <<host, pre, tr, eta, ctx, store, thread, acq, steps, ret, exc, cleanupCalled, cleanupExc, hist, faults, state_file, networks, app_context, lock, tpc, wifi_crack, files>>

\* the entry enable_monitor_mode and start_ap accept: it has a driver and
\* its mode is not "ethernet"
WirelessEntry(g, n) == n \in DOMAIN g.interfaces /\ g.interfaces[n].driver # "none" /\ g.interfaces[n].mode # "ethernet"

\* enable_monitor_mode succeeded on n: the entry's mode becomes "monitor"
MonitorEnabled ==
    /\ \E n \in Nics :
          /\ WirelessEntry(discovery_graph, n)
          /\ discovery_graph' = [discovery_graph EXCEPT !.interfaces = update(@, [k \in {n} |-> [discovery_graph.interfaces[n] EXCEPT !.mode = "monitor"]])]
    /\ pc' = "mode_set"
    /\ call' = NoCall
    /\ UNCHANGED <<host, pre, tr, eta, ctx, store, thread, acq, steps, ret, exc, cleanupCalled, cleanupExc, hist, faults, state_file, networks, app_context, lock, tpc, wifi_crack, files>>

\* start_ap succeeded on n: mode "AP" and is_wireless set
ApStarted ==
    /\ \E n \in Nics :
          /\ WirelessEntry(discovery_graph, n) /\ discovery_graph.interfaces[n].mode # "monitor"
          /\ discovery_graph' = [discovery_graph EXCEPT !.interfaces = update(@, [k \in {n} |-> [discovery_graph.interfaces[n] EXCEPT !.mode = "AP", !.is_wireless = TRUE]])]
    /\ pc' = "mode_set"
    /\ call' = NoCall
    /\ UNCHANGED <<host, pre, tr, eta, ctx, store, thread, acq, steps, ret, exc, cleanupCalled, cleanupExc, hist, faults, state_file, networks, app_context, lock, tpc, wifi_crack, files>>

NextIface == ScanInterfaces \/ MonitorEnabled \/ ApStarted

SpecIface == InitState /\ [][NextIface]_vars

\* ------------------------------------------------------ NetworkScanner
\* the most access-point rows of the airodump CSV that pass the filter
MaxRows == 3

\* what the Power column of a row can hold
PowerStrings == {"-80", "-60", "-40", "-40,", ""}

\* x["power"].replace(',', '')
StripComma(s) == IF s = "-40," THEN "-40" ELSE s

\* the strings int() accepts; it raises ValueError on the others
IsIntText(s) == s \in {"-80", "-60", "-40"}

IntOf(s) == CASE s = "-80" -> 0 - 80 [] s = "-60" -> 0 - 60 [] s = "-40" -> 0 - 40

\* the sort key of a network
PowerKey(x) == IntOf(StripComma(x.power))

\* list.sort(key=..., reverse=True) is stable: x goes behind every entry
\* whose key is at least its own
RECURSIVE InsertDesc(_, _)
InsertDesc(x, sorted) ==
    IF sorted = <<>> THEN <<x>>
    ELSE IF PowerKey(Head(sorted)) >= PowerKey(x) THEN <<Head(sorted)>> \o InsertDesc(x, Tail(sorted))
    ELSE <<x>> \o sorted

RECURSIVE SortDesc(_)
SortDesc(list) == IF list = <<>> THEN <<>> ELSE InsertDesc(list[Len(list)], SortDesc(SubSeq(list, 1, Len(list) - 1)))

\* the keys are computed for the whole list before anything is moved
KeysComputable(list) == \A n \in 1..Len(list) : IsIntText(StripComma(list[n].power))

\* the try around networks.sort: a ValueError from a key leaves the list
\* as it was parsed
sort_by_power(list) == IF KeysComputable(list) THEN SortDesc(list) ELSE list

\* the rows parsed from the CSV, in file order
ParsedRows == UNION {[1..n -> PowerStrings] : n \in 0..MaxRows}

perform_airodump_scan ==
    /\ pc = "start"
    /\ \E rows \in ParsedRows : networks' = sort_by_power([n \in 1..Len(rows) |-> [row |-> n, power |-> rows[n]]])
    /\ pc' = "scanned"
    /\ UNCHANGED <<host, pre, tr, eta, ctx, store, thread, acq, steps, ret, exc, cleanupCalled, cleanupExc, hist, faults, discovery_graph, call, state_file, app_context, lock, tpc, wifi_crack, files>>

NextScanner == perform_airodump_scan

SpecScanner == InitState /\ [][NextScanner]_vars

\* --------------------------------------------- wifi_crack_automation
\* pc: "crack_start" run() entered, "crack_p1" before phase 1,
\* "crack_finally" the try block is left (a return after phase 1 or after a
\* later phase), "crack_done" run() is over.  ret keeps what the finally
\* block read from plugin_local_context.

\* reset_context: `global context; context = {...}` binds the module's name
\* to a new dict; names bound to the old dict elsewhere keep naming it
reset_context(c) == [c EXCEPT !.dicts.fresh = ContextDefaults, !.context = "fresh"]

\* set_context(key, value): context[key] = value on the module's dict
set_context(c, key, value) == [c EXCEPT !.dicts[c.context][key] = value]

\* utils/interface.py enable_monitor_mode: the NetworkManager block, ip/iw,
\* airmon-ng and the finally block; rv is (name or None, nm flag)
plugin_enable_monitor_mode(w, i, e) == EmmFinally(EmmAirmon(EmmIw(EmmNm(w, i, e), i, e), i, e), i, e)

\* select_interface from its first set_context on: the selected name, then
\* the pair enable_monitor_mode returned (the name is None on failure)
select_interface(c, selected, rv) == set_context(set_context(set_context(set_context(c, "interface", selected), "original_interface_for_nm", selected), "monitor_interface", rv.name), "nm_was_set_unmanaged", rv.flag)

\* the finally block of run(), on the three values d it read
CrackNm(w, d, e) == IF d.nm_was_set_unmanaged /\ d.original_interface_for_nm # None THEN LogStep(Except(run_command(w, NmcliSet(d.original_interface_for_nm, "yes"), TRUE, FALSE, e)), "crack_nm_yes") ELSE w

CrackStopMon(w, d, e) == IF d.monitor_interface # None /\ d.original_interface_for_nm # None /\ d.monitor_interface # d.original_interface_for_nm THEN Except(run_command(w, AirmonStop(d.monitor_interface), FALSE, FALSE, e)) ELSE w

CrackLinkUp(w, d, e) == IF d.original_interface_for_nm # None THEN Except(run_command(w, IpLink(d.original_interface_for_nm), FALSE, FALSE, e)) ELSE w

crack_cleanup(w, d, e) == CrackLinkUp(CrackStopMon(CrackNm(w, d, e), d, e), d, e)

InitCrack ==
    /\ \E p \in HostProfiles, nm \in {"yes", "no"} :
          InitHost(p, [i \in Ifaces |-> IF i \in p.present THEN nm ELSE "no"], [i \in Ifaces |-> "managed"], 0, [t \in Tables |-> FALSE])
    /\ InitObjects
    /\ pc = "crack_start"

\* run(): reset_plugin_local_context() and the settings copied from the
\* AppContext into plugin_local_context
CrackReset ==
    /\ pc = "crack_start"
    /\ wifi_crack' = reset_context(wifi_crack)
    /\ pc' = "crack_p1"
    /\ UNCHANGED <<host, pre, tr, eta, ctx, store, thread, acq, steps, ret, exc, cleanupCalled, cleanupExc, hist, faults, discovery_graph, call, state_file, networks, app_context, lock, tpc, files>>

\* phase 1: select_interface(plugin_local_context).  No interface selected:
\* it returns False before anything is recorded.  run() then leaves the try
\* block: at once when phase 1 returned False or plugin_local_context holds
\* no monitor_interface, after the later phases otherwise
CrackPhase1 ==
    /\ pc = "crack_p1"
    /\ \E selected \in store.present \cup {None}, e \in Envs({"nmcli_show", "nmcli_set", "iplink", "airmon"}) :
          \E w \in {IF selected = None THEN World ELSE plugin_enable_monitor_mode(World, selected, e)} :
             /\ Commit(w)
             /\ wifi_crack' = IF selected = None THEN wifi_crack ELSE select_interface(wifi_crack, selected, w.rv)
             /\ faults' = IF Faulty(e) THEN faults + 1 ELSE faults
    /\ pc' = "crack_finally"
    /\ UNCHANGED <<pre, ret, exc, cleanupCalled, cleanupExc, discovery_graph, call, state_file, networks, app_context, lock, tpc, files>>

\* the finally block: the three values are read with plugin_local_context.get
CrackFinally ==
    /\ pc = "crack_finally"
    /\ \E e \in Envs({"nmcli_set", "iplink", "airmon"}) :
          \E w \in {crack_cleanup([World EXCEPT !.steps = <<>>], wifi_crack.dicts[wifi_crack.plugin_local_context], e)} :
             /\ Commit(w)
             /\ faults' = IF Faulty(e) THEN faults + 1 ELSE faults
    /\ ret' = wifi_crack.dicts[wifi_crack.plugin_local_context]
    /\ pc' = "crack_done"
    /\ UNCHANGED <<pre, exc, cleanupCalled, cleanupExc, discovery_graph, call, state_file, networks, app_context, lock, tpc, wifi_crack, files>>

NextCrack == CrackReset \/ CrackPhase1 \/ CrackFinally

SpecCrack == InitCrack /\ [][NextCrack]_vars

\* ------------------------------- a login request racing stop_webserver
\* The portal thread handles one POST /login statement by statement while
\* the main thread runs stop_webserver; tpc["portal"] is where the request
\* stands, pc where the main thread stands.
InitWeb ==
    /\ \E p \in HostProfiles, nm \in {"yes", "no"} :
          InitHost(p, [i \in Ifaces |-> IF i \in p.present THEN nm ELSE "no"], [i \in Ifaces |-> "managed"], 0, [t \in Tables |-> FALSE])
    /\ InitObjects
    /\ pc = "web_start"

\* start_webserver with the web root prepared
WebStart ==
    /\ pc = "web_start"
    /\ \E w \in {start_webserver_begin(World, TRUE)} : Commit(w)
    /\ pc' = "web_running"
    /\ UNCHANGED <<pre, discovery_graph, call, ret, exc, cleanupCalled, cleanupExc, faults, state_file, networks, app_context, lock, wifi_crack, tpc, files>>

\* a POST /login with a username and a password arrives
LoginBegin ==
    /\ thread = "alive" /\ tpc["portal"] = "idle" /\ pc # "web_start"
    /\ host.credfile < MaxPosts
    /\ tpc' = [tpc EXCEPT !["portal"] = "login_test_file"]
    /\ UNCHANGED <<host, tr, eta, ctx, store, thread, acq, steps, hist, pc, pre, discovery_graph, call, ret, exc, cleanupCalled, cleanupExc, faults, state_file, networks, app_context, lock, wifi_crack, files>>

\* `if _credentials_file_path_global:`
LoginTestFile ==
    /\ tpc["portal"] = "login_test_file"
    /\ tpc' = [tpc EXCEPT !["portal"] = IF eta.cf_global THEN "login_open" ELSE "login_test_cb"]
    /\ UNCHANGED <<host, tr, eta, ctx, store, thread, acq, steps, hist, pc, pre, discovery_graph, call, ret, exc, cleanupCalled, cleanupExc, faults, state_file, networks, app_context, lock, wifi_crack, files>>

\* `open(_credentials_file_path_global, 'a')`: the global is read again; on
\* None open() raises TypeError, which `except IOError` does not catch, and
\* the request ends
LoginOpen ==
    /\ tpc["portal"] = "login_open"
    /\ tpc' = [tpc EXCEPT !["portal"] = IF eta.cf_global THEN "login_write" ELSE "idle"]
    /\ UNCHANGED <<host, tr, eta, ctx, store, thread, acq, steps, hist, pc, pre, discovery_graph, call, ret, exc, cleanupCalled, cleanupExc, faults, state_file, networks, app_context, lock, wifi_crack, files>>

\* `f.write(json.dumps(captured_creds) + '\n')` on the open file
LoginWrite ==
    /\ tpc["portal"] = "login_write"
    /\ host' = [host EXCEPT !.credfile = @ + 1]
    /\ tpc' = [tpc EXCEPT !["portal"] = "login_test_cb"]
    /\ UNCHANGED <<tr, eta, ctx, store, thread, acq, steps, hist, pc, pre, discovery_graph, call, ret, exc, cleanupCalled, cleanupExc, faults, state_file, networks, app_context, lock, wifi_crack, files>>

\* `if _captured_credentials_callback_global:`
LoginTestCallback ==
    /\ tpc["portal"] = "login_test_cb"
    /\ tpc' = [tpc EXCEPT !["portal"] = IF eta.cb_global THEN "login_call" ELSE "idle"]
    /\ UNCHANGED <<host, tr, eta, ctx, store, thread, acq, steps, hist, pc, pre, discovery_graph, call, ret, exc, cleanupCalled, cleanupExc, faults, state_file, networks, app_context, lock, wifi_crack, files>>

\* `_captured_credentials_callback_global(captured_creds)`: the global is
\* read again; calling None raises TypeError, caught by `except Exception`
LoginCall ==
    /\ tpc["portal"] = "login_call"
    /\ \E w \in {LoginCallback(World)} : Commit(w)
    /\ tpc' = [tpc EXCEPT !["portal"] = "idle"]
    /\ UNCHANGED <<pc, pre, discovery_graph, call, ret, exc, cleanupCalled, cleanupExc, faults, state_file, networks, app_context, lock, wifi_crack, files>>

\* stop_webserver: `_credentials_file_path_global = None`
StopResetFile ==
    /\ pc = "web_running"
    /\ eta' = [eta EXCEPT !.cf_global = FALSE]
    /\ pc' = "web_stop_cb"
    /\ UNCHANGED <<host, tr, ctx, store, thread, acq, steps, hist, tpc, pre, discovery_graph, call, ret, exc, cleanupCalled, cleanupExc, faults, state_file, networks, app_context, lock, wifi_crack, files>>

\* stop_webserver: `_captured_credentials_callback_global = None`
StopResetCallback ==
    /\ pc = "web_stop_cb"
    /\ eta' = [eta EXCEPT !.cb_global = FALSE]
    /\ pc' = "web_stop_ret"
    /\ UNCHANGED <<host, tr, ctx, store, thread, acq, steps, hist, tpc, pre, discovery_graph, call, ret, exc, cleanupCalled, cleanupExc, faults, state_file, networks, app_context, lock, wifi_crack, files>>

\* stop_webserver returns
StopReturn ==
    /\ pc = "web_stop_ret"
    /\ \E w \in {stop_webserver(World)} : Commit(w)
    /\ pc' = "web_stopped"
    /\ UNCHANGED <<tpc, pre, discovery_graph, call, ret, exc, cleanupCalled, cleanupExc, faults, state_file, networks, app_context, lock, wifi_crack, files>>

NextWeb == WebStart \/ LoginBegin \/ LoginTestFile \/ LoginOpen \/ LoginWrite \/ LoginTestCallback \/ LoginCall \/ StopResetFile \/ StopResetCallback \/ StopReturn \/ ServerThread

SpecWeb == InitWeb /\ [][NextWeb]_vars

\* ------------------------------------------------------- CrackingManager
\* files is the set of regular, readable files that exist.  A path is its
\* directory, its base name and its extension.
TempDir == "/tmp"

WordlistDirs == {"/home/user", TempDir}

UserPaths == [dir : WordlistDirs, name : {"words"}, ext : {"", ".txt", ".gz"}]

\* the wordlist shipped with the program and its gzipped variant
BundledWordlists == <<[dir |-> "wordlists", name |-> "wordlist-top4800-probable", ext |-> ".txt"], [dir |-> "wordlists", name |-> "wordlist-top4800-probable", ext |-> ".gz"]>>

\* the file tempfile.mkstemp(suffix=".txt", prefix="capgate_wordlist_") makes
TempWordlist == [dir |-> TempDir, name |-> "capgate_wordlist_", ext |-> ".txt"]

\* Optional[str] None among the paths
NoPath == [dir |-> "", name |-> "", ext |-> ""]

\* fw is the file system with what one call did to it:
\*   files, created (by mkstemp), removed (by os.remove), rv
FsWorld(fs) == [files |-> fs, created |-> {}, removed |-> {}, rv |-> NoPath]

os_remove(fw, p) == IF p \in fw.files THEN [fw EXCEPT !.files = @ \ {p}, !.removed = @ \cup {p}] ELSE fw

\* _get_temp_uncompressed_wordlist_path: mkstemp, then gzip to it; a failed
\* or empty decompression removes the temporary file and returns None
get_temp_uncompressed_wordlist_path(fw, gunzip_ok) ==
    IF gunzip_ok THEN [fw EXCEPT !.files = @ \cup {TempWordlist}, !.created = @ \cup {TempWordlist}, !.rv = TempWordlist]
    ELSE [os_remove([fw EXCEPT !.files = @ \cup {TempWordlist}, !.created = @ \cup {TempWordlist}], TempWordlist) EXCEPT !.rv = NoPath]

\* potential_paths of find_wordlist for a path without "rockyou" and
\* "/usr/share/wordlists" in it
potential_paths(user_provided_path) ==
    <<user_provided_path>>
    \o (IF user_provided_path.ext \notin {".txt", ".gz"} THEN <<[user_provided_path EXCEPT !.ext = ".txt"], [user_provided_path EXCEPT !.ext = ".gz"]>> ELSE <<>>)
    \o BundledWordlists

\* find_wordlist: the first potential path that exists; a .gz is
\* decompressed to a temporary file
find_wordlist(fw, user_provided_path, gunzip_ok) ==
    LET paths == potential_paths(user_provided_path)
        found == {n \in 1..Len(paths) : paths[n] \in fw.files}
        first == paths[CHOOSE n \in found : \A m \in found : n <= m]
    IN  IF found = {} THEN [fw EXCEPT !.rv = NoPath]
        ELSE IF first.ext = ".gz" THEN get_temp_uncompressed_wordlist_path(fw, gunzip_ok)
        ELSE [fw EXCEPT !.rv = first]

\* `actual_wordlist_path.startswith(tempfile.gettempdir())`
InTempDir(p) == p.dir = TempDir

\* the finally block of crack_wpa_handshake
RemoveTemporary(fw) == IF fw.rv # NoPath /\ InTempDir(fw.rv) THEN os_remove(fw, fw.rv) ELSE fw

\* crack_wpa_handshake for an existing handshake file: resolve the wordlist,
\* run aircrack-ng (check=False), clean up
crack_wpa_handshake(fs, wordlist_path, gunzip_ok) ==
    LET fw == find_wordlist(FsWorld(fs), wordlist_path, gunzip_ok)
    IN  IF fw.rv = NoPath THEN fw ELSE RemoveTemporary(fw)

InitWordlist ==
    /\ \E p \in HostProfiles, nm \in {"yes", "no"} :
          InitHost(p, [i \in Ifaces |-> IF i \in p.present THEN nm ELSE "no"], [i \in Ifaces |-> "managed"], 0, [t \in Tables |-> FALSE])
    /\ InitObjects
    /\ pc = "wl_start"

\* the user or the installation puts a wordlist file in place
PutWordlist ==
    /\ pc = "wl_start"
    /\ \E p \in UserPaths \cup {BundledWordlists[1], BundledWordlists[2]} : p \notin files /\ files' = files \cup {p}
    /\ UNCHANGED <<pc, ret, host, pre, tr, eta, ctx, store, thread, acq, steps, exc, cleanupCalled, cleanupExc, hist, faults, discovery_graph, call, state_file, networks, app_context, lock, tpc, wifi_crack>>

CrackWpaHandshake ==
    /\ pc = "wl_start"
    /\ \E wordlist_path \in UserPaths, gunzip_ok \in BOOLEAN :
          \E fw \in {crack_wpa_handshake(files, wordlist_path, gunzip_ok)} :
             /\ files' = fw.files
             /\ ret' = [wordlist_path |-> wordlist_path, actual |-> fw.rv, created |-> fw.created, removed |-> fw.removed]
    /\ pc' = "wl_done"
    /\ UNCHANGED <<host, pre, tr, eta, ctx, store, thread, acq, steps, exc, cleanupCalled, cleanupExc, hist, faults, discovery_graph, call, state_file, networks, app_context, lock, tpc, wifi_crack>>

NextWordlist == PutWordlist \/ CrackWpaHandshake

SpecWordlist == InitWordlist /\ [][NextWordlist]_vars


\* ------------------------------------------------------------ properties
Exited == pc \in {"returned", "propagated"}

\* C1: once the EvilTwinAttack object has been constructed, cleanup() has
\* been executed whenever run() has returned or let an exception propagate,
\* on every exit path (phase failure, timeout, exception, KeyboardInterrupt)
C1_CleanupOnEveryExit == (Exited /\ eta.constructed) => cleanupCalled

\* run() was interrupted during a phase and tore down before propagating
C1_InterruptedAndCleaned == pc = "propagated" /\ exc = "KeyboardInterrupt" /\ eta.constructed /\ cleanupCalled

\* C2: cleanup() never lets an exception reach its caller, whichever of its
\* commands exit non-zero, time out or are missing
C2_CleanupNeverRaises == cleanupCalled => cleanupExc = "none"

\* a command of cleanup raised and the exception was swallowed inside it
C2_SwallowedInCleanup == cleanupCalled /\ hist.swallowed /\ faults > 0 /\ cleanupExc = "none"

\* C3: after the workflow exits, net.ipv4.ip_forward has its pre-run value
\* (stated for the runs in which no command failed)
C3_IpForwardRestored == (Exited /\ faults = 0) => host.ip_forward = pre.ip_forward

\* C4: setup_redirection_rules followed by clear_redirection_rules leaves
\* the rules and user-defined chains of all four tables as they were when
\* setup_redirection_rules was called (stated for a clear that returned True)
C4_SetupClearIsNoOp ==
    (cleanupCalled /\ hist.setup_ok /\ hist.clear_ok) =>
        /\ host.rules = hist.rules_before
        /\ host.other = hist.other_before
        /\ host.chains = hist.chains_before

\* the interfaces the workflow touched
Touched == ({eta.ap, eta.verify} \cup (IF eta.deauth = None THEN {} ELSE {PhysOf(eta.deauth)})) \cap Ifaces

\* C5: after teardown every interface the workflow touched has the
\* NetworkManager managed status it had before the run (stated for the runs
\* in which no command failed)
C5_NmStatusRestored == (Exited /\ cleanupCalled /\ faults = 0) => \A i \in Touched : host.nm[i] = pre.nm[i]

\* C6: after enable_monitor_mode(i) returned (name, flag) with a name and
\* restore_interface_state(i, flag, name) ran, interface i is in its pre-call
\* operating mode and has its pre-call NetworkManager managed status (stated
\* for the round trips in which no command failed)
C6_MonitorRoundTrip ==
    (pc = "ic_restored" /\ faults = 0 /\ ret.name # None) =>
        /\ host.kmode[ret.i] = pre.kmode[ret.i]
        /\ host.nm[ret.i] = pre.nm[ret.i]

\* C7: after teardown neither the hostapd child, nor the dnsmasq child, nor
\* the captive-portal server thread is still running
C7_HelpersTerminated ==
    (Exited /\ cleanupCalled) =>
        /\ host.hostapd # "running"
        /\ host.dnsmasq # "running"
        /\ thread # "alive"

\* the teardown step that undoes an acquisition
Undo(a) ==
    CASE a = "nm_unmanage" -> "ap_nm_yes"
      [] a = "ip_assign" -> "ap_flush"
      [] a = "monitor" -> "restore_deauth"
      [] a = "ap" -> "stop_ap"
      [] a = "dhcp" -> "stop_dhcp"
      [] a = "fwd" -> "sysctl0"
      [] a = "ipt" -> "ipt_clear"
      [] a = "web" -> "stop_web"

Before(s, x, y) == \E i, j \in 1..Len(s) : i < j /\ s[i] = x /\ s[j] = y

Held(a) == \E i \in 1..Len(acq) : acq[i] = a

\* C8 as stated: for any two acquisitions a performed before b, teardown
\* runs undo(b) before undo(a)
C8_StrictLifo ==
    cleanupCalled => \A i, j \in 1..Len(acq) : i < j => Before(steps, Undo(acq[j]), Undo(acq[i]))

\* the one pair the code undoes in acquisition order: DHCP/DNS against the
\* forwarding switch and the iptables rules acquired after it
DhcpFirst(a, b) == a = "dhcp" /\ b \in {"fwd", "ipt"}

\* C8: teardown undoes acquisitions in LIFO order, except that DHCP/DNS is
\* stopped before IP forwarding and the iptables rules are undone; also when
\* setup aborted part-way
C8_LifoExceptDhcp ==
    cleanupCalled => \A i, j \in 1..Len(acq) : i < j =>
        IF DhcpFirst(acq[i], acq[j]) THEN Before(steps, Undo(acq[i]), Undo(acq[j]))
        ELSE Before(steps, Undo(acq[j]), Undo(acq[i]))

\* teardown after a setup that aborted between DHCP/DNS and the web server
C8_AbortedPartWay == cleanupCalled /\ Held("dhcp") /\ Held("fwd") /\ ~Held("web") /\ Held("monitor")

\* the order of the teardown steps; withDeauth and withAp say which of the
\* optional steps are due
TeardownOrder(withDeauth, withAp, withReconnect) ==
    <<"stop_web", "stop_dhcp", "ipt_clear">>
    \o (IF tr.fwd THEN <<"sysctl0">> ELSE <<>>)
    \o <<"stop_ap">>
    \o (IF withDeauth THEN <<"restore_deauth">> ELSE <<>>)
    \o (IF withAp THEN <<"ap_flush", "ap_nm_yes">> ELSE <<>>)
    \o (IF withAp /\ withReconnect THEN <<"reconnect">> ELSE <<>>)

\* C9 as stated: the steps run in the fixed order, the deauth interface
\* being restored only if it is a different interface from the AP interface
C9_OrderDeauthIfSeparate ==
    cleanupCalled => steps = TeardownOrder(eta.deauth # None /\ eta.deauth # eta.ap, eta.ap # None, eta.nm_was_managed /\ eta.ssid)

\* C9: the steps run in the fixed order, the deauth interface being restored
\* whenever one was selected, the AP interface included
C9_OrderDeauthIfSelected ==
    cleanupCalled => steps = TeardownOrder(eta.deauth # None, eta.ap # None, eta.nm_was_managed /\ eta.ssid)

\* teardown of a single-radio run: the deauth interface is the AP interface
C9_SingleRadioTeardown == cleanupCalled /\ eta.ap # None /\ eta.deauth = eta.ap /\ Held("monitor") /\ Before(steps, "stop_ap", "restore_deauth")

\* C10: when the k-th append fails, setup_redirection_rules returns false,
\* clear_redirection_rules has been invoked, the rules appended before k are
\* gone and the rules of the four tables are those before the call (stated
\* for a rollback whose clear returned True)
C10_RollbackRestoresRules ==
    (pc = "finally" /\ hist.rollback_called /\ hist.clear_ok /\ ~cleanupCalled) =>
        /\ ret = "False"
        /\ host.rules = hist.rules_before
        /\ host.other = hist.other_before

\* no interface of the discovery graph can do AP: S0 cannot assign the role
NoApCapable == \A i \in pre.store.present : "AP" \notin pre.store.caps[i]

\* C11: when S0 fails because no interface is AP-capable under auto-select,
\* the workflow returns failure and afterwards the interfaces map of the
\* state store, the iptables rules and the NetworkManager managed status of
\* every interface are what they were before the run (stated for the runs
\* in which no command failed)
C11_FailedS0LeavesNoTrace ==
    (pc = "returned" /\ eta.constructed /\ eta.auto /\ NoApCapable /\ faults = 0) =>
        /\ ret = "False"
        /\ store = pre.store
        /\ host.rules = pre.rules
        /\ host.other = pre.other
        /\ host.nm = pre.nm

\* C12: if S0-S2 succeeded and no client submitted credentials, the lure
\* wait ends at the timeout, verify_password is not called, run() returns
\* False, the credentials file has no new line, and teardown has run
C12_TimeoutEndsInFailure ==
    (Exited /\ hist.s3 = "timeout" /\ ~eta.captured_creds) =>
        /\ pc = "returned" /\ ret = "False"
        /\ ~hist.verify_called
        /\ host.credfile = pre.credfile
        /\ cleanupCalled

\* run() returned after the lure timed out with a verify interface at hand
C12_TimedOutAndReturned == pc = "returned" /\ hist.s3 = "timeout" /\ ~eta.captured_creds /\ eta.verify # None /\ cleanupCalled

Invoked == pc \in {"invoke_returned", "invoke_propagated"}

\* C13: a Ctrl-C during the S3 wait leads to teardown and to False being
\* returned to the caller; no exception leaves run() or run_plugin
C13_InterruptReturnsFalse ==
    ((Exited \/ Invoked) /\ hist.interrupted_at = "S3") =>
        /\ cleanupCalled
        /\ exc = "none"
        /\ ret = "False"

\* C14: when credentials were captured in S3 and verify_password succeeded
\* in S4 (run() returns True), the context holds cracked_password
C14_CrackedPasswordInContext == (pc = "returned" /\ ret = "True") => ctx.cracked_password

\* C19: run_plugin returns False when the plugin is not found or its entry
\* point raised; the exception never reaches the caller
C19_InvokeReturnsFalse ==
    (Invoked /\ hist.invoke \in {"not_found", "raised"}) =>
        /\ pc = "invoke_returned"
        /\ ret = "False"

\* C15: whenever S0 has succeeded, the AP interface has supports_ap, the
\* deauth interface has supports_monitor, and the verify interface, if one
\* is assigned, is an interface of the store that has supports_managed
C15_RolesMatchCapabilities ==
    pc = "S1" =>
        /\ eta.ap \in store.present /\ "AP" \in store.caps[eta.ap]
        /\ eta.deauth \in store.present /\ "monitor" \in store.caps[eta.deauth]
        /\ eta.verify # None => (eta.verify \in store.present /\ "managed" \in store.caps[eta.verify])

\* C16: when the command line named a target and no scanned network matches
\* it, S1 selects no target and the rogue AP is never started
C16_NoMatchNoTarget == hist.cli_nomatch => (~eta.target /\ host.hostapd = "none")

\* C17: when AP, DHCP/DNS, forwarding and the iptables rules are in place
\* and the web root could be prepared, start_webserver has returned True
\* (the portal is acquired) once it is over; a Ctrl-C aside
C17_WebServerStarts ==
    (eta.httpd_thread = "thread" /\ pc # "S2_web_check" /\ hist.interrupted_at = "none" /\ faults = 0) =>
        Held("web")

\* C18: when no path put the interface into monitor mode,
\* enable_monitor_mode ends by raising, not by returning
C18_TotalFailureRaises == (pc = "ic_enabled" /\ ret.name = None) => exc = "MonitorModeUnavailable"

\* C20: update_interfaces and update_devices merge: a key the map held and
\* the patch lacks keeps its entry, and every key of the patch holds the
\* patch's entry
C20_UpdateMerges ==
    call.op # "none" =>
        /\ \A k \in (DOMAIN call.before) \ (DOMAIN call.patch) :
              k \in DOMAIN discovery_graph[call.map] /\ discovery_graph[call.map][k] = call.before[k]
        /\ \A k \in DOMAIN call.patch :
              k \in DOMAIN discovery_graph[call.map] /\ discovery_graph[call.map][k] = call.patch[k]

\* a patch overwrote one entry of the interfaces map and left another alone
C20_PatchedOneKeptOne ==
    /\ call.op = "update_interfaces"
    /\ \E k \in DOMAIN call.before : k \notin DOMAIN call.patch
    /\ \E k \in DOMAIN call.patch : k \in DOMAIN call.before /\ call.before[k] # call.patch[k]

\* C21: no state-store operation removes a key: from one state to the next
\* the key sets of the interfaces map and of the devices map only grow
C21_KeysNeverShrink ==
    [][/\ DOMAIN discovery_graph.interfaces \subseteq DOMAIN discovery_graph'.interfaces
       /\ DOMAIN discovery_graph.devices \subseteq DOMAIN discovery_graph'.devices]_vars

\* C22: whatever the ARP table, the ARP replies and the discovery files
\* report, 00:00:00:00:00:00 is never a key of the devices map
C22_ZeroMacNeverStored == ZeroMac \notin DOMAIN discovery_graph.devices

\* C29: however verify_password ends (connected, non-zero exit, timeout,
\* nmcli missing, Ctrl-C), `nmcli con delete` has been issued, and
\* `nmcli dev set <iface> managed yes` has been issued exactly when this
\* call issued `managed no` before
C29_ProfileDeletedNmRestored ==
    pc = "verified" =>
        /\ \E n \in 1..Len(steps) : steps[n] = "con_delete"
        /\ (\E n \in 1..Len(steps) : steps[n] = "verify_nm_yes") <=> (\E n \in 1..Len(steps) : steps[n] = "verify_nm_no")

\* Ctrl-C arrived while the connection was coming up on an interface the
\* verifier had taken from NetworkManager
C29_InterruptedWhileUnmanaged == pc = "verified" /\ exc = "KeyboardInterrupt" /\ steps = <<"verify_nm_no", "con_delete", "verify_nm_yes">>

\* C30: the list returned by the scan has the integer powers first, in
\* descending order, and behind them every entry whose power is not an
\* integer, in the order of the file
C30_SortedByPowerDesc ==
    pc = "scanned" =>
        \A i, j \in 1..Len(networks) : i < j =>
            /\ IsIntText(StripComma(networks[j].power)) => IsIntText(StripComma(networks[i].power)) /\ PowerKey(networks[i]) >= PowerKey(networks[j])
            /\ ~IsIntText(StripComma(networks[i].power)) => networks[i].row < networks[j].row

\* C24: the run context handed to a second workflow invocation of the same
\* process holds nothing the first invocation wrote
C24_SecondRunGetsCleanContext == pc = "second_start" => ctx = NewRuntimeMeta

\* C28: the capability flags recorded for the interfaces stay what the scan
\* found, whatever mode-changing operation (start_ap, stop_ap,
\* enable_monitor_mode, restore_interface_state) has run
C28_CapabilitiesUnchanged == store.caps = pre.store.caps

\* C26: after an interface scan every entry whose driver is in the curated
\* Wi-Fi driver list has is_wireless = true
C26_WifiDriverMarkedWireless ==
    pc = "iface_scanned" =>
        \A n \in DOMAIN discovery_graph.interfaces :
            discovery_graph.interfaces[n].driver \in WifiDrivers => discovery_graph.interfaces[n].is_wireless

\* C27: an entry whose mode is monitor or AP has is_wireless = true
C27_MonitorOrApIsWireless ==
    \A n \in DOMAIN discovery_graph.interfaces :
        discovery_graph.interfaces[n].mode \in {"monitor", "AP"} => discovery_graph.interfaces[n].is_wireless

\* C25: the event log is append-only: whatever context operation runs, the
\* log before it is a prefix of the log after it
C25_EventLogAppendOnly ==
    [][/\ Len(app_context.event_log) <= Len(app_context'.event_log)
       /\ SubSeq(app_context'.event_log, 1, Len(app_context.event_log)) = app_context.event_log]_vars

\* C23: a thread that is reading or writing the maps holds the store's lock
C23_AccessUnderLock == \A t \in Threads : tpc[t] \in Accessing => lock.owner = t

\* what phase 1 recorded: the dict that set_context wrote to
Phase1Recorded == wifi_crack.dicts[wifi_crack.context]

\* C31: when phase 1 left the chosen interface NetworkManager-unmanaged, the
\* cleanup of run() has read the values phase 1 recorded and has issued
\* `nmcli dev set <original interface> managed yes`
C31_CrackCleanupRestoresNm ==
    (pc = "crack_done" /\ Phase1Recorded.nm_was_set_unmanaged) =>
        /\ ret = Phase1Recorded
        /\ \E n \in 1..Len(steps) : steps[n] = "crack_nm_yes"

C33_StoreModeManagedAfterRestore == (pc = "ic_restored" /\ ret.name # None /\ faults = 0) => store.mode[ret.i] = "managed"

\* S0 gave the AP role and the deauth role to the same radio
SingleRadio == eta.ap # None /\ eta.deauth # None /\ PhysOf(eta.deauth) = eta.ap

\* C34: in single-radio operation S1 does not put the radio into monitor
\* mode, and start_ap is not refused because of it: a run that chose its
\* target and met no failure and no Ctrl-C has started hostapd by the time
\* it reaches its finally block
C34_SingleRadioApNotRefused ==
    /\ (pc = "S2_ap" /\ SingleRadio) => (store.mode[eta.ap] # "monitor" /\ host.kmode[eta.ap] # "monitor")
    /\ (pc = "finally" /\ SingleRadio /\ eta.target /\ faults = 0 /\ hist.interrupted_at = "none") => host.hostapd # "none"

\* C35: when S1 got a renamed monitor interface from airmon-ng, teardown
\* calls restore_interface_state with the original physical name as
\* original_name and the monitor name as current_name
C35_RestoreGetsOriginalName ==
    (cleanupCalled /\ eta.deauth \in MonNames) => hist.restored = [original |-> PhysOf(eta.deauth), current |-> eta.deauth]

\* C36: whenever S4 has called verify_password, the verify interface is not
\* the rogue AP's interface and is in managed mode
C36_VerifyOnFreeManagedIface ==
    hist.verify_called =>
        /\ eta.verify # eta.ap
        /\ host.kmode[eta.verify] = "managed"

\* an argv with every "-A" replaced by "-D"
DeleteForm(argv) == [n \in 1..Len(argv) |-> IF argv[n] = "-A" THEN "-D" ELSE argv[n]]

\* how many action flags an argv carries
ActionFlags(argv) == Cardinality({n \in 1..Len(argv) : argv[n] \in {"-A", "-D", "-I", "-F", "-X"}})

\* C37: for every rule in the undo list the recorded argv is the executed
\* argv with -A replaced by -D and carries one action flag, and
\* clear_redirection_rules executes the list in reverse order of installation
C37_UndoIsDeleteFormReversed ==
    /\ \A n \in 1..Len(tr.applied) :
          /\ UndoArgv(tr.applied[n]) = DeleteForm(InstallArgv(tr.applied[n]))
          /\ ActionFlags(UndoArgv(tr.applied[n])) = 1
    /\ \A n \in 1..Len(tr.applied) : DeleteOrder(tr.applied)[n] = tr.applied[Len(tr.applied) + 1 - n]

\* C38: once enable_ip_forwarding has succeeded, net.ipv4.ip_forward is 1
\* through the rest of S2, S3 and S4, until teardown begins
C38_ForwardingStaysOn ==
    (tr.fwd /\ pc \in {"S2_web", "S2_web_check", "S3", "S4"}) => host.ip_forward = 1

\* the request in flight calls the registered callback in this step
CallbackInvoked == tpc["portal"] = "login_call" /\ eta.cb_global /\ tpc'["portal"] = "idle"

\* C39: once stop_webserver has returned, no step of a login request appends
\* a line to the credentials file or invokes the callback
C39_NoCaptureAfterStop ==
    [][pc = "web_stopped" => (host'.credfile = host.credfile /\ ~CallbackInvoked)]_vars

\* C40: crack_wpa_handshake removes only the temporary decompressed copy it
\* created in this call, never the wordlist file the user supplied
C40_OnlyTemporaryWordlistDeleted ==
    pc = "wl_done" => /\ ret.removed \subseteq ret.created
                      /\ ret.wordlist_path \notin ret.removed

====
